---- MODULE Spec2Model ----
(***************************************************************************)
(* Model of the hyva_rover autonomy stack.                                 *)
(*                                                                         *)
(*   Spec          the supervisor of server.py: socket handlers, the       *)
(*                 mapping / navigation / exploration worker threads and   *)
(*                 the LiDAR scanner they share                            *)
(*   SpecWatchdog  firebase_listener.py: the joystick callback thread      *)
(*                 interleaved with the safety watchdog thread             *)
(*   SpecJoy       apply_joystick as a function of (x, y)                  *)
(*   SpecGrid      OccupancyGrid.update_from_scan / _ray_cast_free         *)
(*                                                                         *)
(* Every specification runs over the same variables; the variables of the  *)
(* other parts stay at their initial values.                               *)
(***************************************************************************)
EXTENDS Integers, Sequences, FiniteSets, TLC

VARIABLES
    \* ---- server.py ----
    motors_real,          \* motors and not SIMULATION_MODE
    lidar_available,      \* LIDAR_MODULES_AVAILABLE (then lidar_scanner is set)
    mapping_active, navigation_active, exploration_active,
    nav_stop_event, mapping_stop_event, explore_stop_event, stop_action_event,
    motor_state,          \* the published motor_state dict
    wkind, wpc,           \* worker threads: target and position
    lidar_running,        \* LidarScanner.running
    lidar_proc,           \* LidarScanner._process: "none" | "alive" | "dead"
    latest_scan,          \* LidarScanner.latest_scan is not None
    done,                 \* history: the step that was just taken
    \* ---- firebase_listener.py ----
    fb_now,               \* time.time(), in units of 0.1 s
    last_command_time, already_stopped,
    fb_motor,             \* joystick last handed to apply_joystick
    wd_pc, js_pc, js_xy,  \* positions of the watchdog and of the callback
    wd_wake,              \* when the watchdog's current sleep ends
    fb_cmds,              \* joystick commands received so far
    wd_applied,           \* history: watchdog stops since the last command
    wd_silence,           \* history: the silence when the watchdog last stopped
    \* ---- apply_joystick as a function ----
    joy_in, joy_out,
    \* ---- occupancy_grid.py ----
    grid, scan_count,
    robot_cell,           \* (r0, c0) of the update in progress
    upd_pc, upd_points,   \* position inside update_from_scan, points handled
    grid_before,          \* history: the grid before the point just handled
    last_point,           \* history: the point just handled
    scan_ends,            \* history: endpoint cells marked in this update
    \* ---- path_planner.py, pose_estimator.py, the map they work on ----
    map_grid,             \* OccupancyGrid.grid of the map the planners read
    pose,                 \* PoseEstimator: x, y (mm), heading (degrees),
                          \* total_distance (mm), history, last_time
    scan,                 \* scan_data["points"]: angle (degrees), distance (mm)
    a_in, a_out,          \* _a_star: arguments and returned path
    nav_cmd,              \* PathPlanner.plan_step: returned command
    cmd_in, cmd_out,      \* command_to_joystick: argument and result
    planner,              \* ExplorationPlanner: mode, waypoints,
                          \* current_wp_idx, complete
    ep_out,               \* ExplorationPlanner.plan_step: returned command and
                          \* history of what the call did
    frontiers_out,        \* get_frontiers: the clusters it reports
    pe_out,               \* history of the last PoseEstimator call
    fn,                   \* one call of a pure function: its arguments and
                          \* what it returned
    scanner,              \* LidarScanner, its child process and the queue
                          \* between them
    motors,               \* threads inside apply_joystick and the state of
                          \* the motor driver
    race,                 \* threads inside PoseEstimator methods
    cursor,               \* threads inside ExplorationPlanner.plan_step and
                          \* set_mode
    starts                \* threads inside LidarScanner.start, the children
                          \* they spawn and the reader threads they start

srvVars == <<motors_real, lidar_available, mapping_active, navigation_active,
             exploration_active, nav_stop_event, mapping_stop_event,
             explore_stop_event, stop_action_event, motor_state,
             wkind, wpc, lidar_running, lidar_proc, latest_scan,
             done>>
fbVars == <<fb_now, last_command_time, already_stopped, fb_motor, wd_pc,
            js_pc, js_xy, fb_cmds, wd_applied, wd_silence, wd_wake>>
joyVars == <<joy_in, joy_out>>
gridVars == <<grid, scan_count, robot_cell, upd_pc, upd_points, grid_before,
              last_point, scan_ends>>
navVars == <<map_grid, pose, scan, a_in, a_out, nav_cmd, cmd_in, cmd_out,
             planner, ep_out, frontiers_out, pe_out>>
concVars == <<fn, scanner, motors, race, cursor, starts>>
vars == <<srvVars, fbVars, joyVars, gridVars, navVars, concVars>>

\* =========================================================================
\* apply_joystick (server.py and firebase_listener.py carry the same mapping)
\* =========================================================================
DEAD_ZONE == 5

Abs(v) == IF v < 0 THEN -v ELSE v

Max2(a, b) == IF a > b THEN a ELSE b

Min2(a, b) == IF a < b THEN a ELSE b

clamp(value, lo, hi) == Max2(lo, Min2(hi, value))

Side(raw) ==
    LET Direction ==
            IF raw > 0 THEN "forward" ELSE IF raw < 0 THEN "backward" ELSE "stop"
    IN  [direction |-> Direction, speed |-> Abs(raw)]

DeadZone(u) == IF Abs(u) < DEAD_ZONE THEN 0 ELSE u

DeadZoneInclusive(u) == IF Abs(u) <= DEAD_ZONE THEN 0 ELSE u

MixMutant(x, y) ==
    LET x1 == DeadZoneInclusive(x)
        y1 == DeadZoneInclusive(y)
    IN  [motor_a |-> Side(clamp(y1 + x1, -100, 100)),
         motor_b |-> Side(clamp(y1 - x1, -100, 100))]

\* the motor_state dict apply_joystick(x, y) builds
Mix(x, y) ==
    LET x1 == DeadZone(x)
        y1 == DeadZone(y)
        left_raw == clamp(y1 + x1, -100, 100)
        right_raw == clamp(y1 - x1, -100, 100)
    IN  [motor_a |-> Side(left_raw), motor_b |-> Side(right_raw)]

Stopped == [motor_a |-> [direction |-> "stop", speed |-> 0],
            motor_b |-> [direction |-> "stop", speed |-> 0]]

NoResult == [motor_a |-> [direction |-> "none", speed |-> 0],
             motor_b |-> [direction |-> "none", speed |-> 0]]

JoyIdle == joy_in = <<0, 0>> /\ joy_out = NoResult

\* one call apply_joystick(x, y); the result is the dict it returns
JoyApply ==
    /\ joy_out = NoResult
    /\ joy_out' = Mix(joy_in[1], joy_in[2])
    /\ UNCHANGED joy_in
    /\ UNCHANGED <<srvVars, fbVars, gridVars, navVars, concVars>>

\* =========================================================================
\* occupancy_grid.py
\* =========================================================================
UNKNOWN == 0

FREE == 1

OCCUPIED == 100

\* OccupancyGrid.cells, scaled down from int(GRID_SIZE_M / GRID_RESOLUTION)
cells == 4

origin_cell == cells \div 2

MaxScans == 1

MaxPoints == 2

AllCells == (0 .. cells - 1) \X (0 .. cells - 1)

in_bounds(row, col) == 0 <= row /\ row < cells /\ 0 <= col /\ col < cells

NoPoint == [valid |-> FALSE, in_range |-> FALSE, er |-> 0, ec |-> 0]

\* one iteration of the while loop of _ray_cast_free; k holds the values the
\* loop does not change, st the loop variables
RECURSIVE RayLoopNoSticky(_, _, _)
RayLoopNoSticky(g, k, st) ==
    IF ~(st.steps < k.max_steps) THEN g
    ELSE
        LET g1 == IF in_bounds(st.r, st.c)
                  THEN [g EXCEPT ![<<st.r, st.c>>] = FREE] ELSE g
        IN  IF st.r = k.r1 /\ st.c = k.c1 THEN g1
            ELSE
                LET e2 == 2 * st.err
                    stepR == e2 > -k.dc
                    stepC == e2 < k.dr
                    err1 == IF stepR THEN st.err - k.dc ELSE st.err
                    err2 == IF stepC THEN err1 + k.dr ELSE err1
                IN  RayLoopNoSticky(g1, k,
                        [r |-> IF stepR THEN st.r + k.sr ELSE st.r,
                         c |-> IF stepC THEN st.c + k.sc ELSE st.c,
                         err |-> err2, steps |-> st.steps + 1])

RECURSIVE RayLoop(_, _, _)
RayLoop(g, k, st) ==
    IF ~(st.steps < k.max_steps) THEN g
    ELSE
        LET g1 == IF in_bounds(st.r, st.c) /\ g[<<st.r, st.c>>] # OCCUPIED
                  THEN [g EXCEPT ![<<st.r, st.c>>] = FREE] ELSE g
        IN  IF st.r = k.r1 /\ st.c = k.c1 THEN g1
            ELSE
                LET e2 == 2 * st.err
                    stepR == e2 > -k.dc
                    stepC == e2 < k.dr
                    err1 == IF stepR THEN st.err - k.dc ELSE st.err
                    err2 == IF stepC THEN err1 + k.dr ELSE err1
                IN  RayLoop(g1, k,
                        [r |-> IF stepR THEN st.r + k.sr ELSE st.r,
                         c |-> IF stepC THEN st.c + k.sc ELSE st.c,
                         err |-> err2, steps |-> st.steps + 1])

\* a ray cast that frees the OCCUPIED cells on its way as well
ray_cast_free_overwrite(g, r0, c0, r1, c1) ==
    LET dr == Abs(r1 - r0)
        dc == Abs(c1 - c0)
        k == [r1 |-> r1, c1 |-> c1, dr |-> dr, dc |-> dc,
              sr |-> IF r1 > r0 THEN 1 ELSE -1,
              sc |-> IF c1 > c0 THEN 1 ELSE -1,
              max_steps |-> dr + dc + 1]
    IN  RayLoopNoSticky(g, k,
                        [r |-> r0, c |-> c0, err |-> dr - dc, steps |-> 0])

\* OccupancyGrid._ray_cast_free(r0, c0, r1, c1) applied to grid g
ray_cast_free(g, r0, c0, r1, c1) ==
    LET dr == Abs(r1 - r0)
        dc == Abs(c1 - c0)
        k == [r1 |-> r1, c1 |-> c1, dr |-> dr, dc |-> dc,
              sr |-> IF r1 > r0 THEN 1 ELSE -1,
              sc |-> IF c1 > c0 THEN 1 ELSE -1,
              max_steps |-> dr + dc + 1]
    IN  RayLoop(g, k, [r |-> r0, c |-> c0, err |-> dr - dc, steps |-> 0])

\* lines 85-87 of update_from_scan: a point outside [LIDAR_MIN_RANGE,
\* LIDAR_MAX_RANGE] is skipped
in_range(pt) == pt.in_range

\* the endpoint write without the in_bounds test of line 100
mark_endpoint_unchecked(g, er, ec) == [g EXCEPT ![<<er, ec>>] = OCCUPIED]

\* lines 100-101: the endpoint cell is set OCCUPIED when it is in bounds
mark_endpoint(g, er, ec) ==
    IF in_bounds(er, ec) THEN [g EXCEPT ![<<er, ec>>] = OCCUPIED] ELSE g

\* the array of AllCells is modelled with one ring of cells around it, the
\* cells a robot or an endpoint outside the map falls on: a write that the
\* array has no room for shows as a ring cell that is no longer UNKNOWN
GridIdle ==
    LET
        EmptyGrid == [cell \in (-1 .. cells) \X (-1 .. cells) |-> UNKNOWN]
    IN  /\ grid = EmptyGrid
        /\ scan_count = 0
        /\ robot_cell = <<origin_cell, origin_cell>>
        /\ upd_pc = "idle"
        /\ upd_points = 0
        /\ grid_before = EmptyGrid
        /\ last_point = NoPoint
        /\ scan_ends = {}

\* update_from_scan is entered: the robot cell is computed from the pose
UpdateBegin ==
    LET
        RobotCells == {<<origin_cell, origin_cell>>, <<-1, 1>>}
    IN  /\ upd_pc = "idle"
        /\ scan_count < MaxScans
        /\ \E rc \in RobotCells : robot_cell' = rc
        /\ upd_pc' = "points"
        /\ upd_points' = 0
        /\ scan_ends' = {}
        /\ last_point' = NoPoint
        /\ grid_before' = grid
        /\ UNCHANGED <<grid, scan_count>>
        /\ UNCHANGED <<srvVars, fbVars, joyVars, navVars, concVars>>

\* the next point of the scan: it is skipped when out of range, else the ray
\* from the robot cell to its endpoint cell (er, ec) is cast (line 97)
UpdateRay ==
    LET
        \* the cells a ray endpoint or the robot can fall on, one ring around the map
        EndRange == -1 .. cells
    IN  /\ upd_pc = "points"
        /\ upd_points < MaxPoints
        /\ \E inr \in BOOLEAN, er \in EndRange, ec \in EndRange :
             LET pt == [valid |-> TRUE, in_range |-> inr,
                        er |-> IF inr THEN er ELSE 0,
                        ec |-> IF inr THEN ec ELSE 0]
             IN  /\ last_point' = pt
                 /\ IF in_range(pt)
                    THEN /\ grid' = ray_cast_free(grid, robot_cell[1],
                                                  robot_cell[2], pt.er, pt.ec)
                         /\ upd_pc' = "mark"
                    ELSE UNCHANGED <<grid, upd_pc>>
        /\ grid_before' = grid
        /\ upd_points' = upd_points + 1
        /\ UNCHANGED <<scan_count, robot_cell, scan_ends>>
        /\ UNCHANGED <<srvVars, fbVars, joyVars, navVars, concVars>>

\* lines 100-101 for the point whose ray was just cast
UpdateMark ==
    /\ upd_pc = "mark"
    /\ grid' = mark_endpoint(grid, last_point.er, last_point.ec)
    /\ scan_ends' = IF in_bounds(last_point.er, last_point.ec)
                    THEN scan_ends \cup {<<last_point.er, last_point.ec>>}
                    ELSE scan_ends
    /\ upd_pc' = "points"
    /\ UNCHANGED <<scan_count, robot_cell, upd_points, grid_before,
                   last_point>>
    /\ UNCHANGED <<srvVars, fbVars, joyVars, navVars, concVars>>

\* the scan is exhausted: scan_count += 1 and update_from_scan returns
UpdateEnd ==
    /\ upd_pc = "points"
    /\ scan_count' = scan_count + 1
    /\ upd_pc' = "idle"
    /\ grid_before' = grid
    /\ last_point' = NoPoint
    /\ UNCHANGED <<grid, robot_cell, upd_points, scan_ends>>
    /\ UNCHANGED <<srvVars, fbVars, joyVars, navVars, concVars>>

\* =========================================================================
\* firebase_listener.py: joystick callback and safety watchdog
\* =========================================================================
\* time is counted in tenths of a second
SAFETY_TIMEOUT == 8

WATCHDOG_SLEEP == 3

MaxTime == 12

MaxCmds == 2

FbIdle ==
    /\ fb_now = 0
    /\ last_command_time = 0
    /\ already_stopped = TRUE
    /\ fb_motor = <<0, 0>>
    /\ wd_pc = "sleep"
    /\ js_pc = "idle"
    /\ js_xy = <<0, 0>>
    /\ fb_cmds = 0
    /\ wd_applied = 0
    /\ wd_silence = 0
    /\ wd_wake = WATCHDOG_SLEEP


\* the clock advances
FbTick ==
    /\ fb_now < MaxTime
    /\ fb_now' = fb_now + 1
    /\ UNCHANGED <<last_command_time, already_stopped, fb_motor, wd_pc, js_pc,
                   js_xy, fb_cmds, wd_applied, wd_silence, wd_wake>>
    /\ UNCHANGED <<srvVars, joyVars, gridVars, navVars, concVars>>

\* safety_watchdog: time.sleep(0.3) has returned, the test of line 147
WdCheckTime ==
    /\ wd_pc = "sleep"
    /\ fb_now >= wd_wake
    /\ IF fb_now - last_command_time > SAFETY_TIMEOUT
       THEN wd_pc' = "check_flag" /\ UNCHANGED wd_wake
       ELSE wd_pc' = "sleep" /\ wd_wake' = fb_now + WATCHDOG_SLEEP
    /\ UNCHANGED <<fb_now, last_command_time, already_stopped, fb_motor,
                   js_pc, js_xy, fb_cmds, wd_applied, wd_silence>>
    /\ UNCHANGED <<srvVars, joyVars, gridVars, navVars, concVars>>

\* line 148: if not already_stopped
WdCheckFlag ==
    /\ wd_pc = "check_flag"
    /\ IF ~already_stopped
       THEN wd_pc' = "apply" /\ UNCHANGED wd_wake
       ELSE wd_pc' = "sleep" /\ wd_wake' = fb_now + WATCHDOG_SLEEP
    /\ UNCHANGED <<fb_now, last_command_time, already_stopped, fb_motor,
                   js_pc, js_xy, fb_cmds, wd_applied, wd_silence>>
    /\ UNCHANGED <<srvVars, joyVars, gridVars, navVars, concVars>>

\* line 149: apply_joystick(0, 0)
WdApply ==
    /\ wd_pc = "apply"
    /\ fb_motor' = <<0, 0>>
    /\ wd_applied' = wd_applied + 1
    /\ wd_silence' = fb_now - last_command_time
    /\ wd_pc' = "set"
    /\ UNCHANGED <<fb_now, last_command_time, already_stopped, js_pc, js_xy,
                   fb_cmds, wd_wake>>
    /\ UNCHANGED <<srvVars, joyVars, gridVars, navVars, concVars>>

\* line 150: already_stopped = True, then the next sleep
WdSet ==
    /\ wd_pc = "set"
    /\ already_stopped' = TRUE
    /\ wd_pc' = "sleep"
    /\ wd_wake' = fb_now + WATCHDOG_SLEEP
    /\ UNCHANGED <<fb_now, last_command_time, fb_motor, js_pc, js_xy, fb_cmds,
                   wd_applied, wd_silence>>
    /\ UNCHANGED <<srvVars, joyVars, gridVars, navVars, concVars>>

\* on_joystick_change is called with a dict {x, y} (lines 159-170)
JsReceive ==
    LET
        \* the joystick values the remote sends
        FbInputs == {<<0, 50>>, <<100, 0>>, <<0, 0>>}
    IN  /\ js_pc = "idle"
        /\ fb_cmds < MaxCmds
        /\ \E xy \in FbInputs : js_xy' = xy
        /\ fb_cmds' = fb_cmds + 1
        /\ wd_applied' = 0
        /\ js_pc' = "set_time"
        /\ UNCHANGED <<fb_now, last_command_time, already_stopped, fb_motor,
                       wd_pc, wd_wake, wd_silence>>
        /\ UNCHANGED <<srvVars, joyVars, gridVars, navVars, concVars>>

\* line 172: last_command_time = time.time()
JsSetTime ==
    /\ js_pc = "set_time"
    /\ last_command_time' = fb_now
    /\ js_pc' = "set_flag"
    /\ UNCHANGED <<fb_now, already_stopped, fb_motor, wd_pc, wd_wake, js_xy,
                   fb_cmds, wd_applied, wd_silence>>
    /\ UNCHANGED <<srvVars, joyVars, gridVars, navVars, concVars>>

\* line 173: already_stopped = False
JsSetFlag ==
    /\ js_pc = "set_flag"
    /\ already_stopped' = FALSE
    /\ js_pc' = "apply"
    /\ UNCHANGED <<fb_now, last_command_time, fb_motor, wd_pc, wd_wake, js_xy,
                   fb_cmds, wd_applied, wd_silence>>
    /\ UNCHANGED <<srvVars, joyVars, gridVars, navVars, concVars>>

\* line 174: state = apply_joystick(x, y), and the callback returns
JsApply ==
    /\ js_pc = "apply"
    /\ fb_motor' = js_xy
    /\ js_pc' = "idle"
    /\ UNCHANGED <<fb_now, last_command_time, already_stopped, wd_pc, wd_wake,
                   js_xy, fb_cmds, wd_applied, wd_silence>>
    /\ UNCHANGED <<srvVars, joyVars, gridVars, navVars, concVars>>

\* =========================================================================
\* server.py: the supervisor
\* =========================================================================
MaxWorkers == 2

Workers == 1 .. MaxWorkers

NAV_SPEED == 50

EXPLORE_SPEED == 40

\* PathPlanner._cmd, without the fields that only go to the UI
Cmd(action, speed, steering) ==
    [action |-> action, speed |-> speed, steering |-> steering]

\* PathPlanner.command_to_joystick; int(speed * 0.5) of a speed >= 0
command_to_joystick(cmd) ==
    IF cmd.action = "forward" THEN <<0, cmd.speed>>
    ELSE IF cmd.action \in {"turn_left", "turn_right"}
         THEN <<cmd.steering, cmd.speed \div 2>>
         ELSE <<0, 0>>

\* what one call apply_joystick(x, y) can do: with a real driver any of the
\* driver calls may raise, and motor_state is then not assigned
ApplyOutcomes(x, y) ==
    IF ~motors_real
    THEN {[ok |-> TRUE, ms |-> Mix(x, y)]}
    ELSE {[ok |-> TRUE, ms |-> Mix(x, y)], [ok |-> FALSE, ms |-> motor_state]}

FreeSlots == {w \in Workers : wpc[w] = "none"}

NewSlot == CHOOSE w \in FreeSlots : \A v \in FreeSlots : w <= v

SrvIdle ==
    /\ mapping_active = FALSE
    /\ navigation_active = FALSE
    /\ exploration_active = FALSE
    /\ nav_stop_event = FALSE
    /\ mapping_stop_event = FALSE
    /\ explore_stop_event = FALSE
    /\ stop_action_event = FALSE
    /\ motor_state = Stopped
    /\ wkind = [w \in Workers |-> "none"]
    /\ wpc = [w \in Workers |-> "none"]
    /\ lidar_running = FALSE
    /\ lidar_proc = "none"
    /\ latest_scan = FALSE
    /\ done = "other"

\* handle_start_mapping
StartMapping ==
    /\ (mapping_active \/ ~lidar_available \/ FreeSlots # {})
    /\ IF mapping_active \/ ~lidar_available
       THEN UNCHANGED <<mapping_stop_event, mapping_active, wkind, wpc>>
       ELSE /\ mapping_stop_event' = FALSE
            /\ mapping_active' = TRUE
            /\ wkind' = [wkind EXCEPT ![NewSlot] = "mapping"]
            /\ wpc' = [wpc EXCEPT ![NewSlot] = "init"]
    /\ done' = "other"
    /\ UNCHANGED <<motors_real, lidar_available, navigation_active, exploration_active,
                   nav_stop_event, explore_stop_event, stop_action_event,
                   motor_state, lidar_running, lidar_proc,
                   latest_scan>>
    /\ UNCHANGED <<fbVars, joyVars, gridVars, navVars, concVars>>

\* handle_stop_mapping
StopMapping ==
    /\ mapping_stop_event' = TRUE
    /\ mapping_active' = FALSE
    /\ done' = "other"
    /\ UNCHANGED <<motors_real, lidar_available, navigation_active, exploration_active,
                   nav_stop_event, explore_stop_event, stop_action_event,
                   motor_state, wkind, wpc, lidar_running,
                   lidar_proc, latest_scan>>
    /\ UNCHANGED <<fbVars, joyVars, gridVars, navVars, concVars>>

\* handle_start_navigation
StartNavigation ==
    /\ (navigation_active \/ ~lidar_available \/ FreeSlots # {})
    /\ IF navigation_active \/ ~lidar_available
       THEN UNCHANGED <<nav_stop_event, navigation_active, wkind, wpc>>
       ELSE /\ nav_stop_event' = FALSE
            /\ navigation_active' = TRUE
            /\ wkind' = [wkind EXCEPT ![NewSlot] = "navigation"]
            /\ wpc' = [wpc EXCEPT ![NewSlot] = "init"]
    /\ done' = "other"
    /\ UNCHANGED <<motors_real, lidar_available, mapping_active, exploration_active,
                   mapping_stop_event, explore_stop_event, stop_action_event,
                   motor_state, lidar_running, lidar_proc,
                   latest_scan>>
    /\ UNCHANGED <<fbVars, joyVars, gridVars, navVars, concVars>>

\* handle_stop_navigation
StopNavigation ==
    /\ nav_stop_event' = TRUE
    /\ navigation_active' = FALSE
    /\ done' = "other"
    /\ UNCHANGED <<motors_real, lidar_available, mapping_active, exploration_active,
                   mapping_stop_event, explore_stop_event, stop_action_event,
                   motor_state, wkind, wpc, lidar_running,
                   lidar_proc, latest_scan>>
    /\ UNCHANGED <<fbVars, joyVars, gridVars, navVars, concVars>>

\* handle_start_exploration
StartExploration ==
    /\ (exploration_active \/ ~lidar_available \/ FreeSlots # {})
    /\ IF exploration_active \/ ~lidar_available
       THEN UNCHANGED <<explore_stop_event, exploration_active, wkind, wpc>>
       ELSE /\ explore_stop_event' = FALSE
            /\ exploration_active' = TRUE
            /\ wkind' = [wkind EXCEPT ![NewSlot] = "exploration"]
            /\ wpc' = [wpc EXCEPT ![NewSlot] = "init"]
    /\ done' = "other"
    /\ UNCHANGED <<motors_real, lidar_available, mapping_active, navigation_active,
                   nav_stop_event, mapping_stop_event, stop_action_event,
                   motor_state, lidar_running, lidar_proc,
                   latest_scan>>
    /\ UNCHANGED <<fbVars, joyVars, gridVars, navVars, concVars>>

\* handle_stop_exploration
StopExploration ==
    /\ explore_stop_event' = TRUE
    /\ exploration_active' = FALSE
    /\ done' = "other"
    /\ UNCHANGED <<motors_real, lidar_available, mapping_active, navigation_active,
                   nav_stop_event, mapping_stop_event, stop_action_event,
                   motor_state, wkind, wpc, lidar_running,
                   lidar_proc, latest_scan>>
    /\ UNCHANGED <<fbVars, joyVars, gridVars, navVars, concVars>>

\* handle_joystick: no action thread is alive, so line 357 is not reached
Joystick ==
    LET
        \* joystick events the UI sends
        UiInputs == {<<0, 50>>, <<0, 0>>}
    IN  /\ \E xy \in UiInputs : \E o \in ApplyOutcomes(xy[1], xy[2]) :
             /\ motor_state' = o.ms
             /\ done' = "other"
        /\ UNCHANGED <<motors_real, lidar_available, mapping_active,
                       navigation_active, exploration_active, nav_stop_event,
                       mapping_stop_event, explore_stop_event, stop_action_event,
                       wkind, wpc, lidar_running, lidar_proc,
                       latest_scan>>
        /\ UNCHANGED <<fbVars, joyVars, gridVars, navVars, concVars>>

EmergencyStopKeepsExplore ==
    /\ stop_action_event' = TRUE
    /\ nav_stop_event' = TRUE
    /\ mapping_stop_event' = TRUE
    /\ UNCHANGED explore_stop_event
    /\ \E o \in ApplyOutcomes(0, 0) :
         /\ motor_state' = o.ms
         /\ IF o.ok
            THEN /\ navigation_active' = FALSE
                 /\ mapping_active' = FALSE
                 /\ exploration_active' = FALSE
                 /\ done' = "emergency_stop"
            ELSE /\ UNCHANGED <<navigation_active, mapping_active,
                                exploration_active>>
                 /\ done' = "other"
    /\ UNCHANGED <<motors_real, lidar_available, wkind, wpc,
                   lidar_running, lidar_proc, latest_scan>>
    /\ UNCHANGED <<fbVars, joyVars, gridVars, navVars, concVars>>

\* handle_emergency_stop; when apply_joystick raises, the lines after it are
\* not run
EmergencyStop ==
    /\ stop_action_event' = TRUE
    /\ nav_stop_event' = TRUE
    /\ mapping_stop_event' = TRUE
    /\ explore_stop_event' = TRUE
    /\ \E o \in ApplyOutcomes(0, 0) :
         /\ motor_state' = o.ms
         /\ IF o.ok
            THEN /\ navigation_active' = FALSE
                 /\ mapping_active' = FALSE
                 /\ exploration_active' = FALSE
                 /\ done' = "emergency_stop"
            ELSE /\ UNCHANGED <<navigation_active, mapping_active,
                                exploration_active>>
                 /\ done' = "other"
    /\ UNCHANGED <<motors_real, lidar_available, wkind, wpc,
                   lidar_running, lidar_proc, latest_scan>>
    /\ UNCHANGED <<fbVars, joyVars, gridVars, navVars, concVars>>

\* the thread of worker w moves on inside its target
Goto(w, pc) == wpc' = [wpc EXCEPT ![w] = pc] /\ UNCHANGED wkind

\* the target of worker w returns
Ended(w) ==
    /\ wpc' = [wpc EXCEPT ![w] = "none"]
    /\ wkind' = [wkind EXCEPT ![w] = "none"]

\* _mapping_loop up to its while loop. start() returns True at once when the scanner runs;
\* ok is what lidar_scanner.start() returns when it has to spawn the child.
MappingInit(w) ==
    /\ wkind[w] = "mapping" /\ wpc[w] = "init"
    /\ \E ok \in BOOLEAN :
         IF lidar_running
         THEN /\ Goto(w, "loop")
              /\ UNCHANGED <<lidar_running, lidar_proc, mapping_active>>
         ELSE IF ok
         THEN /\ lidar_running' = TRUE
              /\ lidar_proc' = "alive"
              /\ Goto(w, "loop")
              /\ UNCHANGED mapping_active
         ELSE /\ lidar_proc' = "none"
              /\ mapping_active' = FALSE
              /\ Ended(w)
              /\ UNCHANGED lidar_running
    /\ done' = "other"
    /\ UNCHANGED <<motors_real, lidar_available, navigation_active,
                   exploration_active, nav_stop_event, mapping_stop_event,
                   explore_stop_event, stop_action_event, motor_state,
                   latest_scan>>
    /\ UNCHANGED <<fbVars, joyVars, gridVars, navVars, concVars>>

\* _mapping_loop: the test of the while loop and, when the stop event is
\* clear, one pass of the body (no motor command) and the wait
MappingLoop(w) ==
    /\ wkind[w] = "mapping" /\ wpc[w] = "loop"
    /\ Goto(w, IF mapping_stop_event THEN "exit" ELSE "loop")
    /\ done' = "other"
    /\ UNCHANGED <<motors_real, lidar_available, mapping_active,
                   navigation_active, exploration_active, nav_stop_event,
                   mapping_stop_event, explore_stop_event, stop_action_event,
                   motor_state, lidar_running, lidar_proc, latest_scan>>
    /\ UNCHANGED <<fbVars, joyVars, gridVars, navVars, concVars>>

\* _mapping_loop after the loop: lidar_scanner.stop(), mapping_active = False
MappingExit(w) ==
    /\ wkind[w] = "mapping" /\ wpc[w] = "exit"
    /\ lidar_running' = FALSE
    /\ lidar_proc' = "none"
    /\ mapping_active' = FALSE
    /\ Ended(w)
    /\ done' = "other"
    /\ UNCHANGED <<motors_real, lidar_available, navigation_active,
                   exploration_active, nav_stop_event, mapping_stop_event,
                   explore_stop_event, stop_action_event, motor_state,
                   latest_scan>>
    /\ UNCHANGED <<fbVars, joyVars, gridVars, navVars, concVars>>

\* _navigation_loop up to its while loop. The LiDAR is started when it is not running;
\* ok is what lidar_scanner.start() returns when it has to spawn the child.
NavigationInit(w) ==
    /\ wkind[w] = "navigation" /\ wpc[w] = "init"
    /\ \E ok \in BOOLEAN :
         IF lidar_running
         THEN /\ Goto(w, "loop")
              /\ UNCHANGED <<lidar_running, lidar_proc, navigation_active>>
         ELSE IF ok
         THEN /\ lidar_running' = TRUE
              /\ lidar_proc' = "alive"
              /\ Goto(w, "loop")
              /\ UNCHANGED navigation_active
         ELSE /\ lidar_proc' = "none"
              /\ navigation_active' = FALSE
              /\ Ended(w)
              /\ UNCHANGED lidar_running
    /\ done' = "other"
    /\ UNCHANGED <<motors_real, lidar_available, mapping_active,
                   exploration_active, nav_stop_event, mapping_stop_event,
                   explore_stop_event, stop_action_event, motor_state,
                   latest_scan>>
    /\ UNCHANGED <<fbVars, joyVars, gridVars, navVars, concVars>>

\* _navigation_loop: the test of the while loop
NavigationLoop(w) ==
    /\ wkind[w] = "navigation" /\ wpc[w] = "loop"
    /\ Goto(w, IF nav_stop_event THEN "exit" ELSE "tick")
    /\ done' = "other"
    /\ UNCHANGED <<motors_real, lidar_available, mapping_active,
                   navigation_active, exploration_active, nav_stop_event,
                   mapping_stop_event, explore_stop_event, stop_action_event,
                   motor_state, lidar_running, lidar_proc, latest_scan>>
    /\ UNCHANGED <<fbVars, joyVars, gridVars, navVars, concVars>>

\* _navigation_loop: one pass of the loop body and the wait. With a scan, the
\* planner's command goes to apply_joystick; an exception of the driver is
\* caught nowhere and ends the thread.
NavigationTick(w) ==
    LET
        \* commands PathPlanner.plan_step returns, depending on the scan
        NavCmds == {Cmd("forward", NAV_SPEED, 0), Cmd("turn_right", NAV_SPEED, 33),
                    Cmd("stop", 0, 0)}
    IN  /\ wkind[w] = "navigation" /\ wpc[w] = "tick"
        /\ IF ~latest_scan
           THEN /\ Goto(w, "loop")
                /\ done' = "other"
                /\ UNCHANGED motor_state
           ELSE \E cmd \in NavCmds :
                  LET xy == command_to_joystick(cmd)
                  IN  \E o \in ApplyOutcomes(xy[1], xy[2]) :
                        /\ motor_state' = o.ms
                        /\ Goto(w, IF ~o.ok THEN "crashed" ELSE "loop")
                        /\ done' = "other"
        /\ UNCHANGED <<motors_real, lidar_available, mapping_active,
                       navigation_active, exploration_active, nav_stop_event,
                       mapping_stop_event, explore_stop_event, stop_action_event,
                       lidar_running, lidar_proc, latest_scan>>
        /\ UNCHANGED <<fbVars, joyVars, gridVars, navVars, concVars>>

\* _navigation_loop after the loop: apply_joystick(0, 0), lidar_scanner.stop()
\* unless mapping is active, navigation_active = False
NavigationExit(w) ==
    /\ wkind[w] = "navigation" /\ wpc[w] = "exit"
    /\ \E o \in ApplyOutcomes(0, 0) :
         /\ motor_state' = o.ms
         /\ IF o.ok
            THEN /\ IF ~mapping_active /\ lidar_running
                    THEN lidar_running' = FALSE /\ lidar_proc' = "none"
                    ELSE UNCHANGED <<lidar_running, lidar_proc>>
                 /\ navigation_active' = FALSE
                 /\ Ended(w)
            ELSE /\ Goto(w, "crashed")
                 /\ UNCHANGED <<lidar_running, lidar_proc, navigation_active>>
    /\ done' = "other"
    /\ UNCHANGED <<motors_real, lidar_available, mapping_active,
                   exploration_active, nav_stop_event, mapping_stop_event,
                   explore_stop_event, stop_action_event, latest_scan>>
    /\ UNCHANGED <<fbVars, joyVars, gridVars, navVars, concVars>>

\* _exploration_loop up to its while loop. The LiDAR is started when it is not running;
\* ok is what lidar_scanner.start() returns when it has to spawn the child.
ExplorationInit(w) ==
    /\ wkind[w] = "exploration" /\ wpc[w] = "init"
    /\ \E ok \in BOOLEAN :
         IF lidar_running
         THEN /\ Goto(w, "loop")
              /\ UNCHANGED <<lidar_running, lidar_proc, exploration_active>>
         ELSE IF ok
         THEN /\ lidar_running' = TRUE
              /\ lidar_proc' = "alive"
              /\ Goto(w, "loop")
              /\ UNCHANGED exploration_active
         ELSE /\ lidar_proc' = "none"
              /\ exploration_active' = FALSE
              /\ Ended(w)
              /\ UNCHANGED lidar_running
    /\ done' = "other"
    /\ UNCHANGED <<motors_real, lidar_available, mapping_active,
                   navigation_active, nav_stop_event, mapping_stop_event,
                   explore_stop_event, stop_action_event, motor_state,
                   latest_scan>>
    /\ UNCHANGED <<fbVars, joyVars, gridVars, navVars, concVars>>

\* _exploration_loop: the test of the while loop
ExplorationLoop(w) ==
    /\ wkind[w] = "exploration" /\ wpc[w] = "loop"
    /\ Goto(w, IF explore_stop_event THEN "exit" ELSE "tick")
    /\ done' = "other"
    /\ UNCHANGED <<motors_real, lidar_available, mapping_active,
                   navigation_active, exploration_active, nav_stop_event,
                   mapping_stop_event, explore_stop_event, stop_action_event,
                   motor_state, lidar_running, lidar_proc, latest_scan>>
    /\ UNCHANGED <<fbVars, joyVars, gridVars, navVars, concVars>>

\* _exploration_loop: one pass of the loop body and the wait. With a scan, the
\* planner's command goes to apply_joystick; an exception of the driver is
\* caught nowhere and ends the thread.
\* complete is exploration_planner.complete after plan_step, which then
\* returned stop.
ExplorationTick(w) ==
    LET
        \* commands ExplorationPlanner.plan_step returns while it is not complete
        ExploreCmds == {Cmd("forward", EXPLORE_SPEED, 0), Cmd("stop", 0, 0)}
    IN  /\ wkind[w] = "exploration" /\ wpc[w] = "tick"
        /\ IF ~latest_scan
           THEN /\ Goto(w, "loop")
                /\ done' = "other"
                /\ UNCHANGED motor_state
           ELSE \E complete \in BOOLEAN :
                  \E cmd \in IF complete THEN {Cmd("stop", 0, 0)} ELSE ExploreCmds :
                  LET xy == command_to_joystick(cmd)
                  IN  \E o \in ApplyOutcomes(xy[1], xy[2]) :
                        /\ motor_state' = o.ms
                        /\ Goto(w, IF ~o.ok THEN "crashed"
                                    ELSE IF complete THEN "exit" ELSE "loop")
                        /\ done' = "other"
        /\ UNCHANGED <<motors_real, lidar_available, mapping_active,
                       navigation_active, exploration_active, nav_stop_event,
                       mapping_stop_event, explore_stop_event, stop_action_event,
                       lidar_running, lidar_proc, latest_scan>>
        /\ UNCHANGED <<fbVars, joyVars, gridVars, navVars, concVars>>

\* _exploration_loop after the loop: apply_joystick(0, 0), lidar_scanner.stop()
\* unless mapping is active, exploration_active = False
ExplorationExit(w) ==
    /\ wkind[w] = "exploration" /\ wpc[w] = "exit"
    /\ \E o \in ApplyOutcomes(0, 0) :
         /\ motor_state' = o.ms
         /\ IF o.ok
            THEN /\ IF ~mapping_active /\ lidar_running
                    THEN lidar_running' = FALSE /\ lidar_proc' = "none"
                    ELSE UNCHANGED <<lidar_running, lidar_proc>>
                 /\ exploration_active' = FALSE
                 /\ Ended(w)
            ELSE /\ Goto(w, "crashed")
                 /\ UNCHANGED <<lidar_running, lidar_proc, exploration_active>>
    /\ done' = "other"
    /\ UNCHANGED <<motors_real, lidar_available, mapping_active,
                   navigation_active, nav_stop_event, mapping_stop_event,
                   explore_stop_event, stop_action_event, latest_scan>>
    /\ UNCHANGED <<fbVars, joyVars, gridVars, navVars, concVars>>

\* LidarScanner._reader_loop takes a scan message from the queue
LidarFrame ==
    /\ lidar_running /\ lidar_proc = "alive"
    /\ latest_scan' = TRUE
    /\ done' = "other"
    /\ UNCHANGED <<motors_real, lidar_available, mapping_active,
                   navigation_active, exploration_active, nav_stop_event,
                   mapping_stop_event, explore_stop_event, stop_action_event,
                   motor_state, wkind, wpc,
                   lidar_running, lidar_proc>>
    /\ UNCHANGED <<fbVars, joyVars, gridVars, navVars, concVars>>

\* the child reports an error or dies, and _reader_loop notices it: running
\* becomes False and the reader ends
LidarError ==
    /\ lidar_running /\ lidar_proc = "alive"
    /\ lidar_running' = FALSE
    /\ lidar_proc' = "dead"
    /\ done' = "other"
    /\ UNCHANGED <<motors_real, lidar_available, mapping_active,
                   navigation_active, exploration_active, nav_stop_event,
                   mapping_stop_event, explore_stop_event, stop_action_event,
                   motor_state, wkind, wpc, latest_scan>>
    /\ UNCHANGED <<fbVars, joyVars, gridVars, navVars, concVars>>

MaxCallers == 2

(***************************************************************************)
(* The variables of the pure-function calls, the lidar scanner, the motor  *)
(* driver and the pose accesses, at rest.                                  *)
(***************************************************************************)
ConcIdle ==
    /\ fn = [op |-> "none", args |-> <<>>, result |-> <<>>]
    /\ scanner = [pc |-> "idle", result |-> "none", handshake |-> "none",
                  process |-> FALSE, queue |-> FALSE, stop_evt |-> "none",
                  running |-> FALSE, reader |-> FALSE, latest_scan |-> 0,
                  child |-> "none", chan |-> <<>>, produced |-> 0]
    /\ motors = [motor_a |-> Stopped.motor_a, motor_b |-> Stopped.motor_b,
                 calls |-> [t \in 1 .. MaxCallers |->
                              [pc |-> "idle", state |-> Stopped]]]
    /\ race = [pc |-> [t \in {"update", "correct", "get_pose"} |-> "idle"],
               reg |-> [t \in {"update", "correct"} |-> 0],
               delta |-> [t \in {"update", "correct"} |-> <<0, 0>>],
               seen |-> <<0, 0>>]
    /\ cursor = [pc |-> [t \in {"plan_step", "set_mode"} |-> "idle"],
                 reg |-> 0, lst |-> <<>>, refreshed |-> FALSE,
                 raised |-> FALSE]
    /\ starts = [pc |-> [t \in 1 .. MaxCallers |-> "idle"],
                 result |-> [t \in 1 .. MaxCallers |-> "none"],
                 running |-> FALSE, queue |-> 0, process |-> 0,
                 got_queue |-> [t \in 1 .. MaxCallers |-> 0],
                 child |-> [c \in 1 .. MaxCallers |-> "none"],
                 child_queue |-> [c \in 1 .. MaxCallers |-> 0],
                 chan |-> [q \in 1 .. MaxCallers |-> <<>>],
                 readers |-> {}]

\* =========================================================================
\* The map read by the planners and the pose estimator (occupancy_grid.py),
\* world coordinates in millimetres
\* =========================================================================
map_cells == 13

map_origin == map_cells \div 2

\* GRID_RESOLUTION, 0.05 m
RESOLUTION == 50

MapCells == (0 .. map_cells - 1) \X (0 .. map_cells - 1)

EmptyMap == [cell \in MapCells |-> UNKNOWN]

\* OccupancyGrid.in_bounds on the map
map_in_bounds(row, col) ==
    0 <= row /\ row < map_cells /\ 0 <= col /\ col < map_cells

\* int(a / b) of Python for b > 0: the quotient is truncated towards zero
Trunc(a, b) == IF a >= 0 THEN a \div b ELSE 0 - ((0 - a) \div b)

\* round(a / b) of Python for b > 0: to the nearest integer, a half to the
\* even neighbour
RoundDiv(a, b) ==
    LET q == a \div b
        r == a - q * b
    IN  IF 2 * r < b THEN q
        ELSE IF 2 * r > b THEN q + 1
        ELSE IF q % 2 = 0 THEN q ELSE q + 1

\* OccupancyGrid.world_to_cell
world_to_cell(x, y) ==
    <<Trunc(0 - y, RESOLUTION) + map_origin, Trunc(x, RESOLUTION) + map_origin>>

\* OccupancyGrid.cell_to_world
cell_to_world(row, col) ==
    <<(col - map_origin) * RESOLUTION, 0 - ((row - map_origin) * RESOLUTION)>>

\* PoseEstimator.__init__
StartPose ==
    [x |-> 0, y |-> 0, heading |-> 0, total_distance |-> 0,
     history |-> <<>>, last_time |-> 0]

\* ExplorationPlanner.__init__
NewPlanner ==
    [mode |-> "explore", waypoints |-> <<>>, current_wp_idx |-> 0,
     complete |-> FALSE]

NoCmd == [action |-> "none", speed |-> 0, steering |-> 0]

NavIdle ==
    /\ map_grid = EmptyMap
    /\ pose = StartPose
    /\ scan = <<>>
    /\ a_in = [sx |-> 0, sy |-> 0, gx |-> 0, gy |-> 0]
    /\ a_out = [called |-> FALSE, path |-> <<>>]
    /\ nav_cmd = NoCmd
    /\ cmd_in = NoCmd
    /\ cmd_out = [called |-> FALSE, xy |-> <<0, 0>>]
    /\ planner = NewPlanner
    /\ ep_out = [called |-> FALSE, cmd |-> NoCmd, reactive |-> NoCmd,
                 idx_at_reactive |-> 0]
    /\ frontiers_out = [called |-> FALSE, clusters |-> <<>>]
    /\ pe_out = [op |-> "none", applied |-> FALSE]

\* module level of server.py, then init_motors() and init_lidar()
Init ==
    /\ motors_real \in BOOLEAN
    /\ lidar_available \in BOOLEAN
    /\ SrvIdle
    /\ FbIdle /\ JoyIdle /\ GridIdle /\ NavIdle /\ ConcIdle

Spec ==
    Init /\ [][
        \/ StartMapping \/ StopMapping
        \/ StartNavigation \/ StopNavigation
        \/ StartExploration \/ StopExploration
        \/ Joystick \/ EmergencyStop
        \/ LidarFrame \/ LidarError
        \/ \E w \in Workers :
             \/ MappingInit(w) \/ MappingLoop(w) \/ MappingExit(w)
             \/ NavigationInit(w) \/ NavigationLoop(w) \/ NavigationTick(w)
             \/ NavigationExit(w)
             \/ ExplorationInit(w) \/ ExplorationLoop(w)
             \/ ExplorationTick(w) \/ ExplorationExit(w)
    ]_vars

SrvQuiet == motors_real = FALSE /\ lidar_available = TRUE /\ SrvIdle

\* module level: last_command_time = time.time(), already_stopped = True; the
\* watchdog thread starts in its first sleep
WatchdogInit == FbIdle /\ SrvQuiet /\ JoyIdle /\ GridIdle /\ NavIdle /\ ConcIdle

SpecWatchdog ==
    WatchdogInit /\ [][\/ FbTick \/ WdCheckTime \/ WdCheckFlag \/ WdApply
                        \/ WdSet \/ JsReceive \/ JsSetTime \/ JsSetFlag
                        \/ JsApply]_vars

\* a joystick message with any pair of coordinates
JoyInit ==
    LET
        JoyRange == -100 .. 100
    IN  /\ joy_in \in JoyRange \X JoyRange
        /\ joy_out = NoResult
        /\ SrvQuiet /\ FbIdle /\ GridIdle /\ NavIdle /\ ConcIdle

SpecJoy == JoyInit /\ [][JoyApply]_vars

\* OccupancyGrid.__init__
GridInit == GridIdle /\ SrvQuiet /\ FbIdle /\ JoyIdle /\ NavIdle /\ ConcIdle

SpecGrid ==
    GridInit /\ [][UpdateBegin \/ UpdateRay \/ UpdateMark \/ UpdateEnd]_vars

\* nothing of the server, the watchdog, the joystick or the grid update runs
OthersQuiet == SrvQuiet /\ FbIdle /\ JoyIdle /\ GridIdle

\* =========================================================================
\* path_planner.py: ExplorationPlanner._a_star and _gen_return_waypoints
\* =========================================================================
\* path[::10] is taken of a path of more than 10 waypoints
DOWNSAMPLE == 10

\* move_cost of a step onto an UNKNOWN cell (a FREE cell costs 1)
UNKNOWN_COST == 5

NoCell == <<-1, -1>>

\* the heuristic h(r, c) of a search with goal cell t
Heuristic(cell, t) == Abs(cell[1] - t[1]) + Abs(cell[2] - t[2])

Neighbours(cell) ==
    {<<cell[1] - 1, cell[2]>>, <<cell[1] + 1, cell[2]>>,
     <<cell[1], cell[2] - 1>>, <<cell[1], cell[2] + 1>>}

\* lines 401-407: the waypoints from the cell after the source to curr
RECURSIVE PathBack(_, _)
PathBack(came, curr) ==
    IF came[curr] = NoCell THEN <<>>
    ELSE Append(PathBack(came, came[curr]), cell_to_world(curr[1], curr[2]))

\* lines 393-425: the search loop; st holds open_set, came_from, g_score and
\* visited
RECURSIVE AStarLoop(_, _, _)
AStarLoop(g, t, st) ==
    LET
        \* heapq.heappop
        HeapTop(open) ==
            LET
                \* the order of the tuples (f, cost, r, c) on the heap
                TupleLess(a, b) ==
                    \/ a[1] < b[1]
                    \/ a[1] = b[1] /\ a[2] < b[2]
                    \/ a[1] = b[1] /\ a[2] = b[2] /\ a[3] < b[3]
                    \/ a[1] = b[1] /\ a[2] = b[2] /\ a[3] = b[3] /\ a[4] < b[4]
            IN  CHOOSE a \in open : \A b \in open \ {a} : TupleLess(a, b)
        \* line 409: path[::10] if len(path) > 10 else path
        Downsample(path) ==
            IF Len(path) > DOWNSAMPLE
            THEN [i \in 1 .. ((Len(path) - 1) \div DOWNSAMPLE) + 1 |->
                     path[(i - 1) * DOWNSAMPLE + 1]]
            ELSE path
    IN  IF st.open = {} THEN <<>>
        ELSE LET top == HeapTop(st.open)
                 cost == top[2]
                 cell == <<top[3], top[4]>>
                 rest == st.open \ {top}
             IN  IF cell \in st.visited
                 THEN AStarLoop(g, t, [st EXCEPT !.open = rest])
                 ELSE IF cell = t
                 THEN Downsample(PathBack(st.came, t))
                 ELSE LET vis == st.visited \cup {cell}
                          MoveCost(n) == IF g[n] = FREE THEN 1 ELSE UNKNOWN_COST
                          better ==
                              {n \in Neighbours(cell) :
                                  /\ map_in_bounds(n[1], n[2])
                                  /\ n \notin vis
                                  /\ g[n] # OCCUPIED
                                  /\ cost + MoveCost(n) < st.gs[n]}
                      IN  AStarLoop(g, t,
                            [open |-> rest \cup
                                {<<cost + MoveCost(n) + Heuristic(n, t),
                                   cost + MoveCost(n), n[1], n[2]>> : n \in better},
                             came |-> [c \in MapCells |->
                                         IF c \in better THEN cell ELSE st.came[c]],
                             gs |-> [c \in MapCells |->
                                       IF c \in better THEN cost + MoveCost(c)
                                       ELSE st.gs[c]],
                             visited |-> vis])

\* ExplorationPlanner._a_star(sx, sy, gx, gy) on grid g
a_star(g, sx, sy, gx, gy) ==
    LET
        \* float("inf") of g_score.get
        Infinity == map_cells * map_cells * UNKNOWN_COST + 1
        s == world_to_cell(sx, sy)
        t == world_to_cell(gx, gy)
    IN  IF ~map_in_bounds(s[1], s[2]) \/ ~map_in_bounds(t[1], t[2])
        THEN <<>>
        ELSE AStarLoop(g, t,
               [open |-> {<<Heuristic(s, t), 0, s[1], s[2]>>},
                came |-> [c \in MapCells |-> NoCell],
                gs |-> [c \in MapCells |-> IF c = s THEN 0 ELSE Infinity],
                visited |-> {}])

\* ExplorationPlanner._gen_return_waypoints: start_pose is (0, 0, 0)
gen_return_waypoints(g, p) ==
    LET path == a_star(g, p.x, p.y, StartPose.x, StartPose.y)
    IN  IF path # <<>> THEN path ELSE <<<<StartPose.x, StartPose.y>>>>

AStarInit ==
    LET
        \* the maps of this family are a corridor of two rows through the start
        \* cell, walled in by OCCUPIED cells
        CorridorRows == {map_origin, map_origin + 1}
        \* cells of the corridor that can be blocked: a pair in one column closes it
        BlockCells == {<<map_origin, 3>>, <<map_origin + 1, 3>>, <<map_origin, 8>>}
        UnknownCells == {<<map_origin, 5>>, <<map_origin + 1, 10>>}
        CorridorMap(blocked, unknown) ==
            [cell \in MapCells |->
                IF cell[1] \notin CorridorRows \/ cell \in blocked THEN OCCUPIED
                ELSE IF cell \in unknown THEN UNKNOWN
                ELSE FREE]
        \* cells a search starts from or goes to; two of them are outside the map
        EndCells ==
            {<<map_origin, 0>>, <<map_origin + 1, 1>>, <<map_origin, map_origin>>,
             <<map_origin, map_cells - 2>>, <<map_origin, map_cells - 1>>,
             <<map_origin, map_cells>>, <<map_origin, -1>>}
        \* maps without an OCCUPIED cell: all FREE, and FREE but for a stretch
        \* of UNKNOWN cells in the row of the start cell
        OpenMaps ==
            {[cell \in MapCells |-> FREE],
             [cell \in MapCells |->
                IF cell[1] = map_origin /\ cell[2] \in 1 .. 4 THEN UNKNOWN
                ELSE FREE]}
    IN  /\ \/ \E blocked \in SUBSET BlockCells, unknown \in SUBSET UnknownCells :
                 map_grid = CorridorMap(blocked, unknown)
           \/ map_grid \in OpenMaps
        /\ \E s \in EndCells, t \in EndCells :
              LET sw == cell_to_world(s[1], s[2])
                  tw == cell_to_world(t[1], t[2])
              IN  /\ a_in = [sx |-> sw[1], sy |-> sw[2], gx |-> tw[1], gy |-> tw[2]]
                  /\ pose = [StartPose EXCEPT !.x = sw[1], !.y = sw[2]]
        /\ scan = <<>>
        /\ a_out = [called |-> FALSE, path |-> <<>>]
        /\ nav_cmd = NoCmd
        /\ cmd_in = NoCmd
        /\ cmd_out = [called |-> FALSE, xy |-> <<0, 0>>]
        /\ planner = [NewPlanner EXCEPT !.mode = "return"]
        /\ ep_out = [called |-> FALSE, cmd |-> NoCmd, reactive |-> NoCmd,
                     idx_at_reactive |-> 0]
        /\ frontiers_out = [called |-> FALSE, clusters |-> <<>>]
        /\ pe_out = [op |-> "none", applied |-> FALSE]
        /\ OthersQuiet /\ ConcIdle

\* one call of _a_star
AStarCall ==
    /\ ~a_out.called
    /\ a_out' = [called |-> TRUE,
                 path |-> a_star(map_grid, a_in.sx, a_in.sy, a_in.gx, a_in.gy)]
    /\ UNCHANGED <<map_grid, pose, scan, a_in, nav_cmd, cmd_in, cmd_out,
                   planner, ep_out, frontiers_out, pe_out>>
    /\ UNCHANGED <<srvVars, fbVars, joyVars, gridVars, concVars>>

\* _refresh_waypoints in return mode: _gen_return_waypoints, then the cursor
\* is reset (line 284)
RefreshReturn ==
    /\ planner.mode = "return"
    /\ planner.waypoints = <<>>
    /\ planner' = [planner EXCEPT
                     !.waypoints = gen_return_waypoints(map_grid, pose),
                     !.current_wp_idx = 0]
    /\ UNCHANGED <<map_grid, pose, scan, a_in, a_out, nav_cmd, cmd_in, cmd_out,
                   ep_out, frontiers_out, pe_out>>
    /\ UNCHANGED <<srvVars, fbVars, joyVars, gridVars, concVars>>

SpecAStar == AStarInit /\ [][AStarCall \/ RefreshReturn]_vars

\* =========================================================================
\* path_planner.py: PathPlanner, the sector-based reactive planner
\* distances in millimetres, angles in degrees
\* =========================================================================
NAV_SECTOR_COUNT == 12

\* NAV_OBSTACLE_THRESHOLD, 0.35 m
NAV_OBSTACLE_THRESHOLD == 350

NAV_FRONT_SECTOR_HALF == 2

\* 360.0 / sector_count
sector_width == 360 \div NAV_SECTOR_COUNT

\* lines 86-90: the sector a point of angle a falls in
SectorOf(a) ==
    Min2(((a + 180) % 360) \div sector_width, NAV_SECTOR_COUNT - 1)

\* sums[i] and counts[i] after the loop of lines 85-92
RECURSIVE SectorSum(_, _)
SectorSum(points, i) ==
    IF points = <<>> THEN 0
    ELSE (IF SectorOf(Head(points).angle) = i
          THEN Head(points).distance ELSE 0) + SectorSum(Tail(points), i)

SectorCount(points, i) ==
    Cardinality({k \in 1 .. Len(points) : SectorOf(points[k].angle) = i})

\* PathPlanner._build_sectors: the mean per sector, rounded to the
\* millimetre, 0 for a sector without points
build_sectors(points) ==
    LET
        Sectors == 0 .. NAV_SECTOR_COUNT - 1
    IN  [i \in Sectors |->
            IF SectorCount(points, i) > 0
            THEN RoundDiv(SectorSum(points, i), SectorCount(points, i))
            ELSE 0]

\* lines 117-120: the scan for the largest sector from index i on
RECURSIVE BestScan(_, _, _, _)
BestScan(sectors, i, best_idx, best_dist) ==
    IF i = NAV_SECTOR_COUNT THEN [idx |-> best_idx, dist |-> best_dist]
    ELSE IF sectors[i] > best_dist
         THEN BestScan(sectors, i + 1, i, sectors[i])
         ELSE BestScan(sectors, i + 1, best_idx, best_dist)

best_sector_no_threshold(sectors) == BestScan(sectors, 0, -1, 0).idx

\* PathPlanner._best_sector
best_sector(sectors) ==
    LET b == BestScan(sectors, 0, -1, 0)
    IN  IF b.dist < NAV_OBSTACLE_THRESHOLD THEN -1 ELSE b.idx

\* PathPlanner.plan_step of a planner built with the given speed
plan_step(points, speed) ==
    LET
        \* lines 70 and 73: int(min(100, max(20, k * (100 / centre))))
        TurnSteering(k, centre) == Min2(100, Max2(20, (k * 100) \div centre))
    IN  IF points = <<>> THEN Cmd("stop", 0, 0)
        ELSE LET sectors == build_sectors(points)
                 best == best_sector(sectors)
                 centre == NAV_SECTOR_COUNT \div 2
                 \* PathPlanner._front_is_clear
                 front_is_clear ==
                     \A i \in centre - NAV_FRONT_SECTOR_HALF ..
                              centre + NAV_FRONT_SECTOR_HALF :
                        LET idx == i % NAV_SECTOR_COUNT
                        IN  ~(sectors[idx] < NAV_OBSTACLE_THRESHOLD
                              \/ sectors[idx] = 0)
             IN  IF front_is_clear THEN Cmd("forward", speed, 0)
                 ELSE IF best < 0 THEN Cmd("stop", 0, 0)
                 ELSE IF best < centre
                      THEN Cmd("turn_right", speed,
                               TurnSteering(centre - best, centre))
                      ELSE Cmd("turn_left", speed,
                               0 - TurnSteering(best - centre, centre))

Point(a, d) == [angle |-> a, distance |-> d]

\* a sweep with one point of distance d in the middle of every sector
Sweep(d) == [i \in 1 .. NAV_SECTOR_COUNT |->
                Point((i - 1) * sector_width - 180 + sector_width \div 2, d)]

NavInit ==
    LET
        \* further points of a scan: on the sector borders and in between
        ExtraPoints ==
            {Point(a * 15 - 180, d) : a \in 0 .. 24, d \in {100, 3000}}
        \* distances of the sweeps: below and above the threshold, and far
        SweepDistances == {300, 400, 2000}
        \* the scans: no point, or a sweep or nothing followed by up to two points
        Scans ==
            LET bases == {<<>>} \cup {Sweep(d) : d \in SweepDistances}
            IN  bases
                \cup {Append(b, p) : b \in bases, p \in ExtraPoints}
                \cup {Append(Append(b, p), q) :
                         b \in bases, p \in ExtraPoints, q \in ExtraPoints}
    IN  /\ scan \in Scans
        /\ map_grid = EmptyMap
        /\ pose = StartPose
        /\ a_in = [sx |-> 0, sy |-> 0, gx |-> 0, gy |-> 0]
        /\ a_out = [called |-> FALSE, path |-> <<>>]
        /\ nav_cmd = NoCmd
        /\ cmd_in = NoCmd
        /\ cmd_out = [called |-> FALSE, xy |-> <<0, 0>>]
        /\ planner = NewPlanner
        /\ ep_out = [called |-> FALSE, cmd |-> NoCmd, reactive |-> NoCmd,
                     idx_at_reactive |-> 0]
        /\ frontiers_out = [called |-> FALSE, clusters |-> <<>>]
        /\ pe_out = [op |-> "none", applied |-> FALSE]
        /\ OthersQuiet /\ ConcIdle

\* path_planner.plan_step(scan) of the navigation loop
NavPlan ==
    /\ nav_cmd = NoCmd
    /\ nav_cmd' = plan_step(scan, NAV_SPEED)
    /\ UNCHANGED <<map_grid, pose, scan, a_in, a_out, cmd_in, cmd_out,
                   planner, ep_out, frontiers_out, pe_out>>
    /\ UNCHANGED <<srvVars, fbVars, joyVars, gridVars, concVars>>

SpecNav == NavInit /\ [][NavPlan]_vars

CmdInit ==
    LET
        \* =========================================================================
        \* path_planner.py: PathPlanner.command_to_joystick as a function of cmd
        \* =========================================================================
        CmdActions == {"forward", "turn_left", "turn_right", "stop"}
    IN  /\ \E action \in CmdActions, speed \in 0 .. 100, steering \in -100 .. 100 :
              cmd_in = Cmd(action, speed, steering)
        /\ map_grid = EmptyMap
        /\ pose = StartPose
        /\ scan = <<>>
        /\ a_in = [sx |-> 0, sy |-> 0, gx |-> 0, gy |-> 0]
        /\ a_out = [called |-> FALSE, path |-> <<>>]
        /\ nav_cmd = NoCmd
        /\ cmd_out = [called |-> FALSE, xy |-> <<0, 0>>]
        /\ planner = NewPlanner
        /\ ep_out = [called |-> FALSE, cmd |-> NoCmd, reactive |-> NoCmd,
                     idx_at_reactive |-> 0]
        /\ frontiers_out = [called |-> FALSE, clusters |-> <<>>]
        /\ pe_out = [op |-> "none", applied |-> FALSE]
        /\ OthersQuiet /\ ConcIdle

\* one call PathPlanner.command_to_joystick(cmd)
CmdConvert ==
    /\ ~cmd_out.called
    /\ cmd_out' = [called |-> TRUE, xy |-> command_to_joystick(cmd_in)]
    /\ UNCHANGED <<map_grid, pose, scan, a_in, a_out, nav_cmd, cmd_in,
                   planner, ep_out, frontiers_out, pe_out>>
    /\ UNCHANGED <<srvVars, fbVars, joyVars, gridVars, concVars>>

SpecCmd == CmdInit /\ [][CmdConvert]_vars

\* =========================================================================
\* occupancy_grid.py: get_frontiers; path_planner.py: _gen_frontier_waypoints
\* =========================================================================
\* clusters of fewer cells are ignored
MIN_CLUSTER == 3

\* EXPLORE_FRONTIER_MIN_DIST, 0.20 m
EXPLORE_FRONTIER_MIN_DIST == 200

IsFrontierCellNotOccupied(g, cell) ==
    /\ g[cell] = FREE
    /\ \E n \in Neighbours(cell) : g[n] # OCCUPIED

\* lines 143-149: a FREE cell with an UNKNOWN 4-neighbour
IsFrontierCell(g, cell) ==
    /\ g[cell] = FREE
    /\ \E n \in Neighbours(cell) : g[n] = UNKNOWN

frontier_cells(g) ==
    LET
        \* the cells the two loops of get_frontiers visit
        ScannedCells == (1 .. map_cells - 2) \X (1 .. map_cells - 2)
    IN  {cell \in ScannedCells : IsFrontierCell(g, cell)}

\* row-major order, the order in which frontier_cells is filled
RowMajorLess(a, b) == a[1] < b[1] \/ (a[1] = b[1] /\ a[2] < b[2])

FirstCell(S) == CHOOSE a \in S : \A b \in S \ {a} : RowMajorLess(a, b)

\* the flood fill of lines 160-170: the cells of F reached from comp
RECURSIVE FloodFill(_, _)
FloodFill(F, comp) ==
    LET next == comp \cup {n \in F : \E m \in comp : n \in Neighbours(m)}
    IN  IF next = comp THEN comp ELSE FloodFill(F, next)

\* lines 155-172: the clusters in the order they are found, those of fewer
\* than MIN_CLUSTER cells left out
RECURSIVE ClusterScan(_, _)
ClusterScan(F, todo) ==
    IF todo = {} THEN <<>>
    ELSE LET cluster == FloodFill(F, {FirstCell(todo)})
             others == ClusterScan(F, todo \ cluster)
         IN  IF Cardinality(cluster) >= MIN_CLUSTER
             THEN <<cluster>> \o others ELSE others

RECURSIVE SumOver(_, _)
SumOver(S, k) ==
    IF S = {} THEN 0
    ELSE LET a == FirstCell(S) IN a[k] + SumOver(S \ {a}, k)

\* line 187: the stable sort, largest first
RECURSIVE SortBySize(_)
SortBySize(seq) ==
    IF seq = <<>> THEN <<>>
    ELSE LET big == CHOOSE i \in 1 .. Len(seq) :
                      /\ \A j \in 1 .. Len(seq) : seq[j].size <= seq[i].size
                      /\ \A j \in 1 .. i - 1 : seq[j].size < seq[i].size
             rest == [j \in 1 .. Len(seq) - 1 |->
                         IF j < big THEN seq[j] ELSE seq[j + 1]]
         IN  <<seq[big]>> \o SortBySize(rest)

\* OccupancyGrid.get_frontiers; cells is kept with each centroid to tell
\* which cluster it stands for
get_frontiers(g) ==
    LET
        \* lines 175-185: the centroid in world coordinates, rounded to the
        \* millimetre, and the size
        Centroid(cluster) ==
            LET n == Cardinality(cluster)
            IN  [x |-> RoundDiv(RESOLUTION * (SumOver(cluster, 2) - n * map_origin), n),
                 y |-> 0 - RoundDiv(RESOLUTION * (SumOver(cluster, 1) - n * map_origin),
                                    n),
                 size |-> n,
                 cells |-> cluster]
        F == frontier_cells(g)
        clusters == ClusterScan(F, F)
    IN  SortBySize([i \in 1 .. Len(clusters) |-> Centroid(clusters[i])])

\* squared distance in the plane
Dist2(x1, y1, x2, y2) == (x1 - x2) * (x1 - x2) + (y1 - y2) * (y1 - y2)

\* lines 292-297: the frontiers not closer than the minimum, nearest first
\* (the sort is stable)
RECURSIVE SortByDist(_, _)
SortByDist(seq, p) ==
    IF seq = <<>> THEN <<>>
    ELSE LET D(i) == Dist2(seq[i].x, seq[i].y, p.x, p.y)
             near == CHOOSE i \in 1 .. Len(seq) :
                       /\ \A j \in 1 .. Len(seq) : D(i) <= D(j)
                       /\ \A j \in 1 .. i - 1 : D(i) < D(j)
             rest == [j \in 1 .. Len(seq) - 1 |->
                         IF j < near THEN seq[j] ELSE seq[j + 1]]
         IN  <<seq[near]>> \o SortByDist(rest, p)

ValidFrontiers(frontiers, p) ==
    SelectSeq(frontiers,
              LAMBDA f : Dist2(f.x, f.y, p.x, p.y) >=
                         EXPLORE_FRONTIER_MIN_DIST * EXPLORE_FRONTIER_MIN_DIST)

gen_frontier_waypoints_largest(g, p) ==
    LET valid == ValidFrontiers(get_frontiers(g), p)
    IN  IF valid # <<>> THEN <<<<valid[1].x, valid[1].y>>>> ELSE <<>>

\* ExplorationPlanner._gen_frontier_waypoints
gen_frontier_waypoints(g, p) ==
    LET valid == SortByDist(ValidFrontiers(get_frontiers(g), p), p)
    IN  IF valid # <<>> THEN <<<<valid[1].x, valid[1].y>>>> ELSE <<>>

\* the maps of this family: unknown but for a window of FREE and OCCUPIED
\* cells
WindowCells == (1 .. 3) \X (1 .. 4)

FrontierInit ==
    LET
        WindowMap(free) ==
            [cell \in MapCells |->
                IF cell \notin WindowCells THEN UNKNOWN
                ELSE IF cell \in free THEN FREE ELSE OCCUPIED]
        \* the planner has used up its waypoint; poses: the start, one inside the window and one beside it
        FrontierPoses == {<<0, 0>>, <<-200, 200>>, <<-400, 250>>}
        \* maps whose FREE cells lie on the outermost row or column
        EdgeMaps ==
            {[cell \in MapCells |->
                IF cell[k] = 0 /\ cell[3 - k] \in 1 .. n THEN FREE ELSE UNKNOWN]
             : k \in 1 .. 2, n \in 3 .. 4}
    IN  /\ \/ \E free \in SUBSET WindowCells : map_grid = WindowMap(free)
           \/ map_grid \in EdgeMaps
        /\ \E xy \in FrontierPoses :
              pose = [StartPose EXCEPT !.x = xy[1], !.y = xy[2]]
        /\ scan = <<>>
        /\ a_in = [sx |-> 0, sy |-> 0, gx |-> 0, gy |-> 0]
        /\ a_out = [called |-> FALSE, path |-> <<>>]
        /\ nav_cmd = NoCmd
        /\ cmd_in = NoCmd
        /\ cmd_out = [called |-> FALSE, xy |-> <<0, 0>>]
        /\ planner = [NewPlanner EXCEPT !.waypoints = <<<<0, 0>>>>,
                                        !.current_wp_idx = 1]
        /\ ep_out = [called |-> FALSE, cmd |-> NoCmd, reactive |-> NoCmd,
                     idx_at_reactive |-> 0]
        /\ frontiers_out = [called |-> FALSE, clusters |-> <<>>]
        /\ pe_out = [op |-> "none", applied |-> FALSE]
        /\ OthersQuiet /\ ConcIdle

\* one call of get_frontiers
GetFrontiers ==
    /\ ~frontiers_out.called
    /\ frontiers_out' = [called |-> TRUE, clusters |-> get_frontiers(map_grid)]
    /\ UNCHANGED <<map_grid, pose, scan, a_in, a_out, nav_cmd, cmd_in, cmd_out,
                   planner, ep_out, pe_out>>
    /\ UNCHANGED <<srvVars, fbVars, joyVars, gridVars, concVars>>

\* _refresh_waypoints in explore mode: _gen_frontier_waypoints, then the
\* cursor is reset (line 284)
RefreshExplore ==
    /\ planner.mode = "explore"
    /\ planner.current_wp_idx # 0
    /\ planner' = [planner EXCEPT
                     !.waypoints = gen_frontier_waypoints(map_grid, pose),
                     !.current_wp_idx = 0]
    /\ UNCHANGED <<map_grid, pose, scan, a_in, a_out, nav_cmd, cmd_in, cmd_out,
                   ep_out, frontiers_out, pe_out>>
    /\ UNCHANGED <<srvVars, fbVars, joyVars, gridVars, concVars>>

SpecFrontier == FrontierInit /\ [][GetFrontiers \/ RefreshExplore]_vars

\* =========================================================================
\* path_planner.py: ExplorationPlanner.plan_step and set_mode
\* =========================================================================
\* EXPLORE_COMPLETE_PCT, per cent
EXPLORE_COMPLETE_PCT == 90

\* a waypoint closer than this, 0.20 m, is reached
WAYPOINT_REACHED == 200

\* depth at which the recursion of plan_step is given up
MaxRecursion == 6

NoTarget == <<>>

\* ExplorationPlanner._get_current_target
get_current_target(pl) ==
    IF pl.current_wp_idx < Len(pl.waypoints)
    THEN pl.waypoints[pl.current_wp_idx + 1] ELSE NoTarget

\* ExplorationPlanner._refresh_waypoints; the coverage, boundary and corners
\* modes are not entered by the requests modelled here
refresh_waypoints(pl, g, p) ==
    [pl EXCEPT !.waypoints =
                 IF pl.mode = "explore" THEN gen_frontier_waypoints(g, p)
                 ELSE IF pl.mode = "return" THEN gen_return_waypoints(g, p)
                 ELSE pl.waypoints,
               !.current_wp_idx = 0]

\* ExplorationPlanner._angle_diff, in degrees
RECURSIVE angle_diff_norm(_)
angle_diff_norm(d) ==
    IF d > 180 THEN angle_diff_norm(d - 360)
    ELSE IF d < -180 THEN angle_diff_norm(d + 360)
    ELSE d

\* lines 237-238
heading_error(p, target) ==
    LET
        \* math.atan2(dy, dx) in degrees, for the directions that are multiples of
        \* 45 degrees; the targets of the scenarios below lie north or south of
        \* the pose
        Atan2Deg(dy, dx) ==
            CASE dy = 0 /\ dx >= 0 -> 0
              [] dy = 0 /\ dx < 0 -> 180
              [] dx = 0 /\ dy > 0 -> 90
              [] dx = 0 /\ dy < 0 -> -90
              [] dx > 0 /\ dy = dx -> 45
              [] dx > 0 /\ dy = 0 - dx -> -45
              [] dx < 0 /\ dy = 0 - dx -> 135
              [] dx < 0 /\ dy = dx -> -135
        angle_diff(a, b) == angle_diff_norm(a - b)
    IN  angle_diff(Atan2Deg(target[2] - p.y, target[1] - p.x) - 90, p.heading)

\* abs(heading_error) > 0.4 rad, with pi taken as 355 / 113
OffCourse(err) == Abs(err) * 3550 > 81360

BlockedKeepsCursor(pl, reactive_cmd) == [planner |-> pl, cmd |-> reactive_cmd]

\* lines 242-245: the reactive planner says stop, the waypoint is skipped
Blocked(pl, reactive_cmd) ==
    [planner |-> [pl EXCEPT !.current_wp_idx = pl.current_wp_idx + 1],
     cmd |-> reactive_cmd]

OwnSteer(err) ==
    LET
        \* line 253: int(min(100, max(-100, heading_error * 80)))
        steering ==
            Trunc(Min2(100 * 1017, Max2(-100 * 1017, err * 4 * 355)), 1017)
    IN  IF OffCourse(err)
        THEN IF err > 0
             THEN Cmd("turn_left", EXPLORE_SPEED, 0 - Abs(steering))
             ELSE Cmd("turn_right", EXPLORE_SPEED, Abs(steering))
        ELSE Cmd("forward", EXPLORE_SPEED, 0)

SteerIgnoresReactive(reactive_cmd, err) == OwnSteer(err)

\* lines 248-259: the avoidance command is passed on, a clear path is
\* steered towards the target
Steer(reactive_cmd, err) ==
    IF reactive_cmd.action # "forward" THEN reactive_cmd ELSE OwnSteer(err)

\* ExplorationPlanner.plan_step; the result holds the planner after the
\* call, the command returned, and the command of the reactive planner with
\* the cursor at the time it was consulted (NoCmd when it was not)
RECURSIVE explore_plan_step(_, _, _, _, _)
explore_plan_step(pl, g, p, points, depth) ==
    LET Done(pl2, cmd) ==
            [planner |-> pl2, cmd |-> cmd, reactive |-> NoCmd,
             idx_at_reactive |-> pl2.current_wp_idx]
        \* get_stats()["explored_pct"] in tenths of a per cent
        explored_tenths ==
            RoundDiv(1000 * Cardinality({cell \in MapCells : g[cell] # UNKNOWN}),
                     map_cells * map_cells)
    IN  IF depth > MaxRecursion
        THEN Done(pl, Cmd("recursion_error", 0, 0))
        ELSE IF pl.complete THEN Done(pl, Cmd("stop", 0, 0))
        ELSE IF explored_tenths >= EXPLORE_COMPLETE_PCT * 10
        THEN Done([pl EXCEPT !.complete = TRUE], Cmd("stop", 0, 0))
        ELSE
        LET pl1 == IF get_current_target(pl) = NoTarget
                   THEN refresh_waypoints(pl, g, p) ELSE pl
            target == get_current_target(pl1)
        IN  IF target = NoTarget
            THEN Done([pl1 EXCEPT !.complete = TRUE], Cmd("stop", 0, 0))
            ELSE IF Dist2(target[1], target[2], p.x, p.y)
                      < WAYPOINT_REACHED * WAYPOINT_REACHED
            THEN explore_plan_step(
                   [pl1 EXCEPT !.current_wp_idx = pl1.current_wp_idx + 1],
                   g, p, points, depth + 1)
            ELSE
            LET err == heading_error(p, target)
                reactive_cmd == plan_step(points, EXPLORE_SPEED)
                out == IF reactive_cmd.action = "stop"
                       THEN Blocked(pl1, reactive_cmd)
                       ELSE [planner |-> pl1, cmd |-> Steer(reactive_cmd, err)]
            IN  [planner |-> out.planner, cmd |-> out.cmd,
                 reactive |-> reactive_cmd,
                 idx_at_reactive |-> pl1.current_wp_idx]

ExploreInit ==
    LET
        \* a strip of three FREE cells in row r around the column of the start cell
        StripMap(r) ==
            [cell \in MapCells |->
                IF cell[1] = r /\ Abs(cell[2] - map_origin) <= 1 THEN FREE
                ELSE UNKNOWN]
        \* the maps: all unknown, all free (fully explored), a frontier 0.25 m ahead
        \* of the start and a frontier 0.10 m ahead of it
        ExploreMaps ==
            {EmptyMap, [cell \in MapCells |-> FREE], StripMap(map_origin - 5),
             StripMap(map_origin - 2)}
        ExplorePoses ==
            {[StartPose EXCEPT !.heading = h] : h \in {0, 45, 90, 180, -90}}
            \cup {[StartPose EXCEPT !.y = 100]}
        \* waypoint lists held at the start of a call
        ExploreWaypoints ==
            {<<>>, <<<<0, 250>>>>, <<<<0, 100>>>>, <<<<0, 100>>, <<0, -300>>>>,
             <<<<0, 350>>, <<0, -300>>>>}
        \* scans: none, clear, blocked all around, blocked ahead with room on the
        \* right and on the left
        ExploreScans ==
            {<<>>, Sweep(2000), Sweep(300),
             Append(Sweep(300), Point(-45, 3000)),
             Append(Sweep(300), Point(75, 3000))}
    IN  /\ map_grid \in ExploreMaps
        /\ pose \in ExplorePoses
        /\ scan \in ExploreScans
        /\ \E wps \in ExploreWaypoints, c \in BOOLEAN :
              planner = [NewPlanner EXCEPT !.waypoints = wps, !.complete = c]
        /\ a_in = [sx |-> 0, sy |-> 0, gx |-> 0, gy |-> 0]
        /\ a_out = [called |-> FALSE, path |-> <<>>]
        /\ nav_cmd = NoCmd
        /\ cmd_in = NoCmd
        /\ cmd_out = [called |-> FALSE, xy |-> <<0, 0>>]
        /\ ep_out = [called |-> FALSE, cmd |-> NoCmd, reactive |-> NoCmd,
                     idx_at_reactive |-> 0]
        /\ frontiers_out = [called |-> FALSE, clusters |-> <<>>]
        /\ pe_out = [op |-> "none", applied |-> FALSE]
        /\ OthersQuiet /\ ConcIdle

\* exploration_planner.plan_step(scan) of the exploration loop
ExplorePlan ==
    /\ LET out == explore_plan_step(planner, map_grid, pose, scan, 0)
       IN  /\ planner' = out.planner
           /\ ep_out' = [called |-> TRUE, cmd |-> out.cmd,
                         reactive |-> out.reactive,
                         idx_at_reactive |-> out.idx_at_reactive]
    /\ UNCHANGED <<map_grid, pose, scan, a_in, a_out, nav_cmd, cmd_in, cmd_out,
                   frontiers_out, pe_out>>
    /\ UNCHANGED <<srvVars, fbVars, joyVars, gridVars, concVars>>

\* ExplorationPlanner.set_mode(mode): set_mode("explore") from
\* handle_set_explore_mode, set_mode("return") from handle_return_to_start
SetModeExplore ==
    /\ \E mode \in {"explore", "return"} :
         planner' = refresh_waypoints(
                      [planner EXCEPT !.mode = mode, !.complete = FALSE,
                                      !.current_wp_idx = 0],
                      map_grid, pose)
    /\ ep_out' = [called |-> FALSE, cmd |-> NoCmd, reactive |-> NoCmd,
                  idx_at_reactive |-> 0]
    /\ UNCHANGED <<map_grid, pose, scan, a_in, a_out, nav_cmd, cmd_in, cmd_out,
                   frontiers_out, pe_out>>
    /\ UNCHANGED <<srvVars, fbVars, joyVars, gridVars, concVars>>

SpecExplore == ExploreInit /\ [][ExplorePlan \/ SetModeExplore]_vars

\* =========================================================================
\* pose_estimator.py: PoseEstimator.update and correct_from_scan
\* Lengths are millimetres, angles degrees, times tenths of a second.
\* =========================================================================
\* MOTOR_MAX_SPEED, the full PWM duty cycle
MOTOR_MAX_SPEED == 100

\* DR_MAX_SPEED_MPS, in mm/s
DR_MAX_SPEED_MPS == 300

\* a duty cycle up to this is no motion
PWM_FLOOR == 5

\* the longest time delta accepted, 2.0 s
MAX_DT == 20

\* poses kept in the history
HISTORY_CAP == 500

\* the fewest scan points correct_from_scan works with
MIN_SCAN_POINTS == 20

\* the scan points that are scored
MATCH_POINTS == 100

\* the distances scored, 0.05 m to 8.0 m
MATCH_MIN_DIST == 50

MATCH_MAX_DIST == 8000

\* the offset step, 0.05 m
MATCH_STEP == 50

\* the score a correction has to exceed
MATCH_MIN_SCORE == 10

\* calls of the pose estimator in one run
MaxPoseOps == 2

\* math.cos and math.sin for multiples of a quarter turn
CosDeg(a) ==
    CASE a % 360 = 0 -> 1
      [] a % 360 = 90 -> 0
      [] a % 360 = 180 -> -1
      [] a % 360 = 270 -> 0

SinDeg(a) == CosDeg(a - 90)

\* PoseEstimator._pwm_to_mps, in mm/s
pwm_to_mps(speed, direction) ==
    IF direction = "stop" \/ speed <= PWM_FLOOR THEN 0
    ELSE IF direction = "backward"
         THEN 0 - (speed * DR_MAX_SPEED_MPS) \div MOTOR_MAX_SPEED
         ELSE (speed * DR_MAX_SPEED_MPS) \div MOTOR_MAX_SPEED

\* lines 60-90 for equal wheel speeds (omega = 0): the straight line, the
\* distance travelled and the history
Advance(p, v, dt, now) ==
    LET x2 == p.x + (v * CosDeg(p.heading + 90) * dt) \div 10
        y2 == p.y + (v * SinDeg(p.heading + 90) * dt) \div 10
        h2 == Append(p.history, <<x2, y2, p.heading, now>>)
    IN  [p EXCEPT !.x = x2, !.y = y2,
                  !.total_distance = p.total_distance + (Abs(v) * dt) \div 10,
                  !.history = IF Len(h2) > HISTORY_CAP
                              THEN SubSeq(h2, Len(h2) - HISTORY_CAP + 1, Len(h2))
                              ELSE h2]

pose_update_any_dt(p, speed, direction, dt) ==
    Advance([p EXCEPT !.last_time = p.last_time + dt],
            pwm_to_mps(speed, direction), dt, p.last_time + dt)

\* PoseEstimator.update with both wheels at the same speed and direction;
\* dt is the time since the last call
pose_update(p, speed, direction, dt) ==
    LET now == p.last_time + dt
        p1 == [p EXCEPT !.last_time = now]
    IN  IF dt <= 0 \/ dt > MAX_DT THEN p1
        ELSE Advance(p1, pwm_to_mps(speed, direction), dt, now)

\* the offsets in the order the loops of lines 118-119 visit them
MatchOffsets ==
    [i \in 1 .. 9 |-> <<((i - 1) \div 3 - 1) * MATCH_STEP,
                        (((i - 1) % 3) - 1) * MATCH_STEP>>]

\* lines 120-134: the score of one offset
MatchScore(g, p, points, dx, dy) ==
    LET
        \* lines 124-134: whether the end of a scan point, seen from the pose moved
        \* by (dx, dy), counts
        PointScores(pt) ==
            /\ ~(pt.distance < MATCH_MIN_DIST \/ pt.distance > MATCH_MAX_DIST)
            /\ LET angle == pt.angle + p.heading
                   rc == world_to_cell(p.x + dx + pt.distance * CosDeg(angle),
                                       p.y + dy + pt.distance * SinDeg(angle))
               IN  map_in_bounds(rc[1], rc[2]) /\ g[rc] = OCCUPIED
    IN  Cardinality({i \in 1 .. Min2(Len(points), MATCH_POINTS) :
                        PointScores(points[i])})

\* lines 115-137: the best offset, the first one of the highest score
RECURSIVE BestMatch(_, _, _, _, _)
BestMatch(g, p, points, i, best) ==
    IF i > Len(MatchOffsets) THEN best
    ELSE LET off == MatchOffsets[i]
             score == MatchScore(g, p, points, off[1], off[2])
         IN  BestMatch(g, p, points, i + 1,
                       IF score > best.score
                       THEN [score |-> score, dx |-> off[1], dy |-> off[2]]
                       ELSE best)

\* PoseEstimator.correct_from_scan
correct_from_scan(p, g, points) ==
    IF Len(points) < MIN_SCAN_POINTS THEN [pose |-> p, applied |-> FALSE]
    ELSE LET best == BestMatch(g, p, points, 1,
                               [score |-> 0, dx |-> 0, dy |-> 0])
         IN  IF best.score > MATCH_MIN_SCORE /\ (best.dx # 0 \/ best.dy # 0)
             THEN [pose |-> [p EXCEPT !.x = p.x + best.dx,
                                      !.y = p.y + best.dy],
                   applied |-> TRUE]
             ELSE [pose |-> p, applied |-> FALSE]

\* the variables of the planners, and no call of the pose estimator yet
PoseRest ==
    /\ planner = NewPlanner
    /\ a_in = [sx |-> 0, sy |-> 0, gx |-> 0, gy |-> 0]
    /\ a_out = [called |-> FALSE, path |-> <<>>]
    /\ nav_cmd = NoCmd
    /\ cmd_in = NoCmd
    /\ cmd_out = [called |-> FALSE, xy |-> <<0, 0>>]
    /\ ep_out = [called |-> FALSE, cmd |-> NoCmd, reactive |-> NoCmd,
                 idx_at_reactive |-> 0]
    /\ frontiers_out = [called |-> FALSE, clusters |-> <<>>]
    /\ pe_out = [op |-> "none", applied |-> FALSE, n |-> 0, dt |-> 0,
                 speed |-> 0, direction |-> "stop", before |-> StartPose]

\* the pose in the middle of a cell, so that no scan end lies on a border
\* between cells
MatchInit ==
    LET
        \* n times the same scan point
        Repeat(n, pt) == [i \in 1 .. n |-> pt]
        \* scans of one direction: too few points, enough points, points too near
        \* and too far, a mix with 12 points in range, and more than 100 points of
        \* which the first 100 are out of range
        PoseScans ==
            {Repeat(n, Point(a, 200)) : n \in {19, 20}, a \in {0, 90}}
            \cup {Repeat(20, Point(0, d)) : d \in {40, 9000}}
            \cup {Repeat(12, Point(0, 200)) \o Repeat(8, Point(0, 9000)),
                  Repeat(10, Point(0, 200)) \o Repeat(10, Point(0, 9000)),
                  Repeat(100, Point(0, 9000)) \o Repeat(20, Point(0, 200))}
        \* maps with OCCUPIED cells four cells to the right of the start cell: one
        \* cell, a block of 3 x 3 cells, a wall from top to bottom, and a wall one
        \* cell nearer
        PoseMaps ==
            {EmptyMap,
             [cell \in MapCells |->
                IF cell = <<map_origin, map_origin + 4>> THEN OCCUPIED ELSE UNKNOWN],
             [cell \in MapCells |->
                IF Abs(cell[1] - map_origin) <= 1 /\ Abs(cell[2] - map_origin - 4) <= 1
                THEN OCCUPIED ELSE UNKNOWN],
             [cell \in MapCells |->
                IF cell[2] = map_origin + 4 THEN OCCUPIED ELSE UNKNOWN],
             [cell \in MapCells |->
                IF cell[2] = map_origin + 3 THEN OCCUPIED ELSE UNKNOWN]}
    IN  /\ map_grid \in PoseMaps
        /\ scan \in PoseScans
        /\ \E h \in {0, 90, 180, -90} :
              pose = [StartPose EXCEPT !.x = 25, !.y = -25, !.heading = h]
        /\ PoseRest
        /\ OthersQuiet /\ ConcIdle

\* the pose estimator at the start position, facing any quarter turn
PoseInit ==
    /\ map_grid = EmptyMap
    /\ scan = <<>>
    /\ \E h \in {0, 90, 180, -90} : pose = [StartPose EXCEPT !.heading = h]
    /\ PoseRest
    /\ OthersQuiet /\ ConcIdle

\* pose_estimator.update(...) of apply_joystick, driving straight or
\* standing; the time deltas are negative, zero, 1 s, 2 s and 2.1 s
PoseUpdate ==
    LET
        \* the duty cycle and direction of both wheels: standing, too slow to move,
        \* full speed ahead and back
        PoseDrives ==
            {<<0, "stop">>, <<5, "forward">>, <<100, "forward">>, <<100, "backward">>}
    IN  /\ pe_out.n < MaxPoseOps
        /\ \E drive \in PoseDrives, dt \in {-10, 0, 10, 20, 21} :
              LET speed == drive[1]
                  direction == drive[2]
              IN
              /\ pose' = pose_update(pose, speed, direction, dt)
              /\ pe_out' = [op |-> "update", applied |-> FALSE,
                            n |-> pe_out.n + 1, dt |-> dt, speed |-> speed,
                            direction |-> direction, before |-> pose]
        /\ UNCHANGED <<map_grid, scan, a_in, a_out, nav_cmd, cmd_in, cmd_out,
                       planner, ep_out, frontiers_out>>
        /\ UNCHANGED <<srvVars, fbVars, joyVars, gridVars, concVars>>

\* pose_estimator.correct_from_scan(occupancy_grid, scan["points"]) of the
\* mapping, navigation and exploration loops
CorrectFromScan ==
    /\ pe_out.n < MaxPoseOps
    /\ LET out == correct_from_scan(pose, map_grid, scan)
       IN  /\ pose' = out.pose
           /\ pe_out' = [op |-> "correct", applied |-> out.applied,
                         n |-> pe_out.n + 1, dt |-> 0, speed |-> 0,
                         direction |-> "stop", before |-> pose]
    /\ UNCHANGED <<map_grid, scan, a_in, a_out, nav_cmd, cmd_in, cmd_out,
                   planner, ep_out, frontiers_out>>
    /\ UNCHANGED <<srvVars, fbVars, joyVars, gridVars, concVars>>

SpecPose == PoseInit /\ [][PoseUpdate]_vars

SpecMatch == MatchInit /\ [][CorrectFromScan]_vars


\* =========================================================================
\* Single calls of pure functions: the coordinate transforms of
\* occupancy_grid.py and the thinning of the points of a map_data event
\* =========================================================================
\* OccupancyGrid.cells of the map the server builds, int(10.0 / 0.05)
GRID_CELLS == 200

\* the most points a map_data event is meant to carry
MAP_DATA_POINTS == 360

MaxScanLen == 800

\* the round trip with the origin offset left out of world_to_cell
cell_round_trip_no_origin(row, col) ==
    <<row - GRID_CELLS \div 2, col - GRID_CELLS \div 2>>

\* world_to_cell(cell_to_world(row, col)) on the server's map, in the
\* floating-point arithmetic of the code. cell_to_world gives the products
\* k * 0.05 and -(k * 0.05) for the offset k of the cell from the origin;
\* world_to_cell divides them by 0.05 again and truncates. For the offsets in
\* Inexact the quotient of the doubles is just below k in magnitude and
\* truncates to one less; for every other offset of the map it is k.
cell_round_trip(row, col) ==
    LET origin == GRID_CELLS \div 2
        Inexact == {43, 81, 86, 91}
        quotient(k) == IF Abs(k) \in Inexact
                       THEN (IF k > 0 THEN k - 1 ELSE k + 1)
                       ELSE Trunc(k * RESOLUTION, RESOLUTION)
        back(i) == quotient(i - origin) + origin
    IN  <<back(row), back(col)>>

\* lines 417-419, 545-547 and 684-686 of server.py: the number of points left
\* of n by points[::len(points) // 360]
published_points(n) ==
    IF n > MAP_DATA_POINTS
    THEN LET step == n \div MAP_DATA_POINTS
         IN  (n + step - 1) \div step
    ELSE n

\* minimum wall length of _find_runs, in cells
MIN_WALL == 5

\* OccupancyGrid._find_runs(occupied, axis): the cells are taken in sorted
\* order; an unvisited one begins a run that is extended to the right
\* (downwards for the vertical axis) over occupied, unvisited cells; runs of
\* at least 5 cells are reported with their first and last cell. visited is
\* local to the call.
find_runs(occupied, axis) ==
    LET RECURSIVE Extend(_, _)
        Extend(run, visited) ==
            LET last == run[Len(run)]
                nxt == IF axis = "horizontal" THEN <<last[1], last[2] + 1>>
                       ELSE <<last[1] + 1, last[2]>>
            IN  IF nxt \in occupied /\ nxt \notin visited
                THEN Extend(Append(run, nxt), visited \cup {nxt})
                ELSE run
        RECURSIVE Sorted(_, _)
        Sorted(todo, visited) ==
            IF todo = {} THEN <<>>
            ELSE LET cell == FirstCell(todo)
                     run == Extend(<<cell>>, visited \cup {cell})
                     seen == visited \cup {run[i] : i \in 1 .. Len(run)}
                 IN  IF cell \in visited THEN Sorted(todo \ {cell}, visited)
                     ELSE IF Len(run) >= MIN_WALL
                     THEN <<[r1 |-> run[1][1], c1 |-> run[1][2],
                             r2 |-> run[Len(run)][1], c2 |-> run[Len(run)][2],
                             axis |-> axis]>>
                          \o Sorted(todo \ {cell}, seen)
                     ELSE Sorted(todo \ {cell}, seen)
    IN  Sorted(occupied, {})

FnInit ==
    LET
        \* OCCUPIED cells: a row of 4 to 6 cells and a column of 4 to 6 cells,
        \* apart, touching, meeting in a corner or crossing
        Occupied ==
            {{<<2, 1 + i>> : i \in 0 .. n - 1} \cup {<<r + i, c>> : i \in 0 .. m - 1} :
                n \in 4 .. 6, m \in 4 .. 6, r \in 0 .. 3, c \in {1, 3, 6, 8}}
        \* world coordinates in millimetres, on and between cell borders
        Coords == {-120, -100, -75, -50, -20, -1, 0, 1, 20, 50, 75, 100, 120}
        Calls ==
            {[op |-> "world_to_cell", args |-> <<x, y>>] :
                x \in Coords, y \in Coords}
            \cup {[op |-> "round_trip", args |-> <<row, col>>] :
                row \in 0 .. GRID_CELLS - 1,
                col \in {0, 9, 14, 19, 57, 100, 143, 181, 186, 191, 199}}
            \cup {[op |-> "map_data", args |-> <<n>>] : n \in 0 .. MaxScanLen}
            \cup {[op |-> "detect_walls", args |-> <<occ>>] : occ \in Occupied}
            \cup {[op |-> "start_exploration", args |-> <<mode>>] :
                     mode \in {"explore", "coverage", "boundary", "corners",
                               "return"}}
    IN  /\ \E call \in Calls :
             fn = [op |-> call.op, args |-> call.args, result |-> <<>>]
        /\ scanner = "idle"
        /\ motors = "idle"
        /\ race = "idle"
        /\ cursor = "idle"
        /\ starts = "idle"
        /\ NavIdle /\ OthersQuiet

\* the call is made
FnCall ==
    /\ fn.op \in {"world_to_cell", "round_trip", "map_data"}
    /\ fn.result = <<>>
    /\ fn' = [fn EXCEPT !.result =
                CASE fn.op = "world_to_cell" ->
                        world_to_cell(fn.args[1], fn.args[2])
                  [] fn.op = "round_trip" ->
                        cell_round_trip(fn.args[1], fn.args[2])
                  [] fn.op = "map_data" ->
                        <<published_points(fn.args[1])>>]
    /\ UNCHANGED <<scanner, motors, race, cursor, starts>>
    /\ UNCHANGED <<srvVars, fbVars, joyVars, gridVars, navVars>>

\* OccupancyGrid.detect_walls_and_corners up to line 211: self.walls, the
\* horizontal runs followed by the vertical runs
DetectWallsCall ==
    /\ fn.op = "detect_walls" /\ fn.result = <<>>
    /\ fn' = [fn EXCEPT !.result = find_runs(fn.args[1], "horizontal")
                                     \o find_runs(fn.args[1], "vertical")]
    /\ UNCHANGED <<scanner, motors, race, cursor, starts>>
    /\ UNCHANGED <<srvVars, fbVars, joyVars, gridVars, navVars>>

\* handle_start_exploration with the mode fn.args[1] in its request, and the
\* worker it starts up to line 526: the handler reads the mode for its log
\* line and starts _exploration_loop without arguments; the worker constructs
\* ExplorationPlanner(occupancy_grid, pose_estimator). The result is the mode
\* of that planner.
StartExplorationCall ==
    /\ fn.op = "start_exploration" /\ fn.result = <<>>
    /\ fn' = [fn EXCEPT !.result = <<NewPlanner.mode>>]
    /\ UNCHANGED <<scanner, motors, race, cursor, starts>>
    /\ UNCHANGED <<srvVars, fbVars, joyVars, gridVars, navVars>>

SpecFn == FnInit /\ [][FnCall \/ DetectWallsCall \/ StartExplorationCall]_vars

\* =========================================================================
\* lidar_scanner.py: LidarScanner in the server process, _lidar_worker in the
\* child process, and the multiprocessing queue between them
\* =========================================================================
\* mp.Queue(maxsize=10)
QUEUE_MAXSIZE == 10

MaxFrames == 12

\* every subsystem at rest, as the constructors leave it
Rest == ConcIdle /\ NavIdle /\ OthersQuiet

\* _cleanup_process that drops the handles and leaves the child running
cleanup_process_no_kill(s) ==
    [s EXCEPT !.process = FALSE, !.queue = FALSE, !.stop_evt = "none",
              !.chan = <<>>]

\* LidarScanner._cleanup_process: a child that is alive is terminated, and
\* killed when it has not gone after 3 s; the three handles are reset to None
\* (the queue goes with its handle)
cleanup_process(s) ==
    [s EXCEPT !.child = IF @ \in {"init", "scanning"} THEN "exited" ELSE @,
              !.process = FALSE, !.queue = FALSE, !.stop_evt = "none",
              !.chan = <<>>]

\* LidarScanner.start up to the wait for the first message: it returns True
\* at once when the scanner runs, else it makes the queue and the stop event
\* and spawns the child
ScannerStart ==
    /\ scanner.pc = "idle"
    /\ scanner' = IF scanner.running
                  THEN [scanner EXCEPT !.result = "true",
                                       !.handshake = "none"]
                  ELSE [scanner EXCEPT !.pc = "handshake",
                                       !.result = "pending",
                                       !.handshake = "none",
                                       !.queue = TRUE, !.chan = <<>>,
                                       !.stop_evt = "clear",
                                       !.process = TRUE, !.child = "init"]
    /\ UNCHANGED <<fn, motors, race, cursor, starts>>
    /\ UNCHANGED <<srvVars, fbVars, joyVars, gridVars, navVars>>

\* _lidar_worker up to its scan loop: it reports started, or reports an error
\* and returns, or dies without a message
ChildInit ==
    /\ scanner.child = "init"
    /\ \E outcome \in {"started", "error", "dies"} :
         scanner' =
            CASE outcome = "started" ->
                    [scanner EXCEPT !.chan = Append(@, [type |-> "started", id |-> 0]),
                                    !.child = "scanning"]
              [] outcome = "error" ->
                    [scanner EXCEPT !.chan = Append(@, [type |-> "error", id |-> 0]),
                                    !.child = "exited"]
              [] outcome = "dies" ->
                    [scanner EXCEPT !.child = "exited"]
    /\ UNCHANGED <<fn, motors, race, cursor, starts>>
    /\ UNCHANGED <<srvVars, fbVars, joyVars, gridVars, navVars>>

\* one pass of the scan loop of _lidar_worker: the frame goes to the queue
\* with put_nowait and the exception of a full queue is passed over; an
\* exception of the SDK is reported with a blocking put and ends the child
ChildScan ==
    /\ scanner.child = "scanning"
    /\ scanner.stop_evt # "set"
    /\ scanner.produced < MaxFrames
    /\ \E raises \in BOOLEAN :
         IF raises
         THEN /\ Len(scanner.chan) < QUEUE_MAXSIZE
              /\ scanner' = [scanner EXCEPT !.chan = Append(@, [type |-> "error", id |-> 0]),
                                            !.child = "exited"]
         ELSE scanner' =
                [scanner EXCEPT
                    !.produced = @ + 1,
                    !.chan = IF Len(@) < QUEUE_MAXSIZE
                             THEN Append(@, [type |-> "scan", id |-> scanner.produced + 1])
                             ELSE @]
    /\ UNCHANGED <<fn, motors, race, cursor, starts>>
    /\ UNCHANGED <<srvVars, fbVars, joyVars, gridVars, navVars>>

\* LidarScanner.start from self._queue.get(timeout=15) to its return: the
\* first message, or a timeout when none has come
StartHandshake ==
    /\ scanner.pc = "handshake"
    /\ LET msg == IF scanner.chan # <<>> THEN Head(scanner.chan)
                  ELSE [type |-> "timeout", id |-> 0]
           taken == [scanner EXCEPT
                        !.chan = IF @ # <<>> THEN Tail(@) ELSE @,
                        !.handshake = msg.type,
                        !.pc = "idle"]
       IN  scanner' =
              IF msg.type # "started"
              THEN [cleanup_process(taken) EXCEPT !.result = "false"]
              ELSE [taken EXCEPT !.running = TRUE, !.reader = TRUE,
                                 !.result = "true"]
    /\ UNCHANGED <<fn, motors, race, cursor, starts>>
    /\ UNCHANGED <<srvVars, fbVars, joyVars, gridVars, navVars>>

\* one pass of _reader_loop that gets a message: a scan frame becomes
\* latest_scan, an error ends the reader
ReaderGet ==
    /\ scanner.reader /\ scanner.running
    /\ scanner.chan # <<>>
    /\ LET msg == Head(scanner.chan)
       IN  scanner' =
              IF msg.type = "scan"
              THEN [scanner EXCEPT !.chan = Tail(@), !.latest_scan = msg.id]
              ELSE [scanner EXCEPT !.chan = Tail(@), !.running = FALSE,
                                   !.reader = FALSE]
    /\ UNCHANGED <<fn, motors, race, cursor, starts>>
    /\ UNCHANGED <<srvVars, fbVars, joyVars, gridVars, navVars>>

SpecLidar ==
    Rest /\ [][ScannerStart \/ ChildInit \/ ChildScan \/ StartHandshake
               \/ ReaderGet]_vars


\* =========================================================================
\* server.py: apply_joystick called from several threads (event handlers,
\* loop workers, the Firebase listener) and the L298N driver behind it
\* =========================================================================
MotorsInit ==
    /\ ConcIdle /\ NavIdle /\ FbIdle /\ JoyIdle /\ GridIdle /\ SrvIdle
    /\ motors_real \in BOOLEAN
    /\ lidar_available = TRUE

\* the next step of the call of apply_joystick in thread t. The call computes
\* its two sides from (x, y), commands motor A, commands motor B (both only
\* with a real driver), assigns motor_state and returns; no lock is held, so
\* another thread may run between any two of these.
ApplyJoystickStep(t) ==
    LET
        \* joystick values the callers pass
        CallInputs == {<<0, 50>>, <<0, -30>>, <<40, 0>>, <<0, 0>>}
        call == motors.calls[t]
        Moved(pc, m_a, m_b) ==
            motors' = [motors EXCEPT !.calls[t].pc = pc,
                                     !.motor_a = m_a, !.motor_b = m_b]
    IN  /\ CASE call.pc = "idle" ->
                 /\ \E xy \in CallInputs :
                      motors' = [motors EXCEPT
                                    !.calls[t] = [pc |-> "motor_a",
                                                  state |-> Mix(xy[1], xy[2])]]
                 /\ UNCHANGED motor_state
              [] call.pc = "motor_a" ->
                 /\ Moved("motor_b",
                         IF motors_real THEN call.state.motor_a
                         ELSE motors.motor_a,
                         motors.motor_b)
                 /\ UNCHANGED motor_state
              [] call.pc = "motor_b" ->
                 /\ Moved("publish", motors.motor_a,
                         IF motors_real THEN call.state.motor_b
                         ELSE motors.motor_b)
                 /\ UNCHANGED motor_state
              [] call.pc = "publish" ->
                 /\ motor_state' = call.state
                 /\ Moved("returned", motors.motor_a, motors.motor_b)
              [] call.pc = "returned" -> FALSE
        /\ done' = "other"
        /\ UNCHANGED <<motors_real, lidar_available, mapping_active,
                       navigation_active, exploration_active, nav_stop_event,
                       mapping_stop_event, explore_stop_event, stop_action_event,
                       wkind, wpc, lidar_running, lidar_proc,
                       latest_scan>>
        /\ UNCHANGED <<fn, scanner, race, cursor, starts>>
        /\ UNCHANGED <<fbVars, joyVars, gridVars, navVars>>

SpecMotors == MotorsInit /\ [][\E t \in 1 .. MaxCallers : ApplyJoystickStep(t)]_vars


\* =========================================================================
\* pose_estimator.py: update() on the thread that calls apply_joystick,
\* correct_from_scan() and get_pose() on a loop worker. PoseEstimator holds
\* no lock; a thread may be switched between any two bytecodes.
\* =========================================================================
\* the next step of writer t: "update" runs lines 69-70 of update(),
\* "correct" lines 140-141 of correct_from_scan(). Each `self.x += d` loads
\* self.x, adds d and stores the sum; then the same for self.y.
PoseWriteStep(t) ==
    LET
        \* the displacement of one straight-line update and the offsets a
        \* scan match applies, in millimetres
        Deltas == IF t = "update" THEN {<<0, 30>>, <<30, 0>>, <<20, 20>>}
                  ELSE {<<MATCH_STEP, MATCH_STEP>>, <<0 - MATCH_STEP, 0>>}
        pc == race.pc[t]
    IN  /\ CASE pc = "idle" ->
                 /\ \E d \in Deltas :
                      race' = [race EXCEPT !.pc[t] = "load_x", !.delta[t] = d]
                 /\ UNCHANGED pose
              [] pc = "load_x" ->
                 /\ race' = [race EXCEPT !.pc[t] = "store_x", !.reg[t] = pose.x]
                 /\ UNCHANGED pose
              [] pc = "store_x" ->
                 /\ pose' = [pose EXCEPT !.x = race.reg[t] + race.delta[t][1]]
                 /\ race' = [race EXCEPT !.pc[t] = "load_y"]
              [] pc = "load_y" ->
                 /\ race' = [race EXCEPT !.pc[t] = "store_y", !.reg[t] = pose.y]
                 /\ UNCHANGED pose
              [] pc = "store_y" ->
                 /\ pose' = [pose EXCEPT !.y = race.reg[t] + race.delta[t][2]]
                 /\ race' = [race EXCEPT !.pc[t] = "returned"]
              [] pc = "returned" -> FALSE
        /\ UNCHANGED <<fn, scanner, motors, cursor, starts>>
        /\ UNCHANGED <<map_grid, scan, a_in, a_out, nav_cmd, cmd_in, cmd_out,
                       planner, ep_out, frontiers_out, pe_out>>
        /\ UNCHANGED <<srvVars, fbVars, joyVars, gridVars>>

\* the next step of get_pose (line 151): self.x is read, then self.y
GetPoseStep ==
    /\ race.pc["get_pose"] \in {"idle", "read_y"}
    /\ race' = IF race.pc["get_pose"] = "idle"
               THEN [race EXCEPT !.pc["get_pose"] = "read_y",
                                 !.seen[1] = pose.x]
               ELSE [race EXCEPT !.pc["get_pose"] = "returned",
                                 !.seen[2] = pose.y]
    /\ UNCHANGED <<fn, scanner, motors, cursor, starts>>
    /\ UNCHANGED <<srvVars, fbVars, joyVars, gridVars, navVars>>

SpecRace ==
    Rest /\ [][PoseWriteStep("update") \/ PoseWriteStep("correct")
               \/ GetPoseStep]_vars


\* =========================================================================
\* path_planner.py, server.py: plan_step on the exploration worker while
\* set_mode runs in a socket handler thread (handle_set_explore_mode,
\* handle_return_to_start). ExplorationPlanner holds no lock; a thread may
\* be switched between any two bytecodes.
\* =========================================================================
\* an exploration in progress: the planner holds a list of up to three
\* waypoints and its cursor is anywhere in it; the map is less than 90 %
\* explored
CursorInit ==
    LET Held == {<<<<0, 250>>>>, <<<<0, 250>>, <<0, -300>>>>,
                 <<<<0, 100>>, <<0, 350>>, <<0, -300>>>>}
    IN  /\ map_grid \in {EmptyMap, [cell \in MapCells |->
                                     IF cell[1] = map_origin - 5
                                        /\ Abs(cell[2] - map_origin) <= 1
                                     THEN FREE ELSE UNKNOWN]}
        /\ pose = StartPose
        /\ scan \in {Sweep(2000), Sweep(300)}
        /\ \E wps \in Held, idx \in 0 .. 3 :
              /\ idx <= Len(wps)
              /\ planner = [NewPlanner EXCEPT !.waypoints = wps,
                                              !.current_wp_idx = idx]
        /\ a_in = [sx |-> 0, sy |-> 0, gx |-> 0, gy |-> 0]
        /\ a_out = [called |-> FALSE, path |-> <<>>]
        /\ nav_cmd = NoCmd
        /\ cmd_in = NoCmd
        /\ cmd_out = [called |-> FALSE, xy |-> <<0, 0>>]
        /\ ep_out = [called |-> FALSE, cmd |-> NoCmd, reactive |-> NoCmd,
                     idx_at_reactive |-> 0]
        /\ frontiers_out = [called |-> FALSE, clusters |-> <<>>]
        /\ pe_out = [op |-> "none", applied |-> FALSE]
        /\ OthersQuiet /\ ConcIdle

\* the next step of plan_step (lines 202-241) on the exploration worker.
\* _get_current_target reads current_wp_idx and len(waypoints) for its test
\* (line 433), then waypoints and current_wp_idx again for the subscript
\* (line 434); `self.current_wp_idx += 1` (lines 233, 244) loads the cursor
\* and stores the sum. A call that returns is followed by the next call of
\* the loop (or by the recursive call of line 234).
PlanStepCursor ==
    LET pc == cursor.pc["plan_step"]
        At(l) == [cursor EXCEPT !.pc["plan_step"] = l]
    IN  /\ ~cursor.raised
        /\ CASE pc = "idle" ->
                 /\ cursor' = [At(IF planner.complete THEN "idle" ELSE "test_idx")
                                 EXCEPT !.refreshed = FALSE]
                 /\ UNCHANGED planner
              [] pc = "test_idx" ->
                 /\ cursor' = [At("test_len") EXCEPT !.reg = planner.current_wp_idx]
                 /\ UNCHANGED planner
              [] pc = "test_len" ->
                 IF cursor.reg < Len(planner.waypoints)
                 THEN /\ cursor' = At("sub_list")
                      /\ UNCHANGED planner
                 ELSE IF cursor.refreshed
                 THEN /\ cursor' = At("idle")
                      /\ planner' = [planner EXCEPT !.complete = TRUE]
                 ELSE /\ cursor' = At("refresh")
                      /\ UNCHANGED planner
              [] pc = "refresh" ->
                 /\ planner' = [planner EXCEPT !.waypoints =
                                  refresh_waypoints(planner, map_grid, pose).waypoints]
                 /\ cursor' = At("reset")
              [] pc = "reset" ->
                 /\ planner' = [planner EXCEPT !.current_wp_idx = 0]
                 /\ cursor' = [At("test_idx") EXCEPT !.refreshed = TRUE]
              [] pc = "sub_list" ->
                 /\ cursor' = [At("sub_idx") EXCEPT !.lst = planner.waypoints]
                 /\ UNCHANGED planner
              [] pc = "sub_idx" ->
                 /\ IF planner.current_wp_idx < Len(cursor.lst)
                    THEN LET target == cursor.lst[planner.current_wp_idx + 1]
                             reached ==
                                 Dist2(target[1], target[2], pose.x, pose.y)
                                   < WAYPOINT_REACHED * WAYPOINT_REACHED
                             blocked ==
                                 plan_step(scan, EXPLORE_SPEED).action = "stop"
                         IN  cursor' = At(IF reached \/ blocked THEN "load"
                                          ELSE "idle")
                    ELSE \* IndexError: list index out of range
                         cursor' = [At("idle") EXCEPT !.raised = TRUE]
                 /\ UNCHANGED planner
              [] pc = "load" ->
                 /\ cursor' = [At("store") EXCEPT !.reg = planner.current_wp_idx]
                 /\ UNCHANGED planner
              [] pc = "store" ->
                 /\ planner' = [planner EXCEPT !.current_wp_idx = cursor.reg + 1]
                 /\ cursor' = At("idle")
        /\ UNCHANGED <<fn, scanner, motors, race, starts>>
        /\ UNCHANGED <<map_grid, pose, scan, a_in, a_out, nav_cmd, cmd_in,
                       cmd_out, ep_out, frontiers_out, pe_out>>
        /\ UNCHANGED <<srvVars, fbVars, joyVars, gridVars>>

\* the next step of set_mode(mode) (lines 265-284) in a socket handler
\* thread: mode and complete are assigned, the cursor is zeroed (line 269),
\* _refresh_waypoints assigns the regenerated list and zeroes the cursor
\* again (line 284)
SetModeStep ==
    LET pc == cursor.pc["set_mode"]
        At(l) == [cursor EXCEPT !.pc["set_mode"] = l]
    IN  /\ CASE pc = "idle" ->
                 /\ \E mode \in {"explore", "return"} :
                      planner' = [planner EXCEPT !.mode = mode,
                                                 !.complete = FALSE]
                 /\ cursor' = At("zero")
              [] pc = "zero" ->
                 /\ planner' = [planner EXCEPT !.current_wp_idx = 0]
                 /\ cursor' = At("refresh")
              [] pc = "refresh" ->
                 /\ planner' = [planner EXCEPT !.waypoints =
                                  refresh_waypoints(planner, map_grid, pose).waypoints]
                 /\ cursor' = At("reset")
              [] pc = "reset" ->
                 /\ planner' = [planner EXCEPT !.current_wp_idx = 0]
                 /\ cursor' = At("idle")
        /\ UNCHANGED <<fn, scanner, motors, race, starts>>
        /\ UNCHANGED <<map_grid, pose, scan, a_in, a_out, nav_cmd, cmd_in,
                       cmd_out, ep_out, frontiers_out, pe_out>>
        /\ UNCHANGED <<srvVars, fbVars, joyVars, gridVars>>

SpecCursor == CursorInit /\ [][PlanStepCursor \/ SetModeStep]_vars

\* =========================================================================
\* lidar_scanner.py, server.py: LidarScanner.start called by loop workers
\* that run at the same time (the mapping, navigation and exploration loops
\* each call lidar_scanner.start() on their own thread). start() takes no
\* lock. Caller t makes queue t and child t; self._queue and self._process
\* hold the number of the queue and of the child they refer to, 0 for None.
\* =========================================================================
\* the next step of start() (lines 151-196) in caller t
StartStep(t) ==
    LET pc == starts.pc[t]
        \* _cleanup_process (lines 212-220)
        Cleaned(s) ==
            [s EXCEPT !.child = [c \in DOMAIN @ |->
                                   IF c = s.process /\ @[c] \in {"init", "scanning"}
                                   THEN "exited" ELSE @[c]],
                      !.process = 0, !.queue = 0]
    IN  /\ CASE pc = "idle" ->
                 \* line 157: if self.running: return True
                 starts' = IF starts.running
                           THEN [starts EXCEPT !.pc[t] = "returned",
                                               !.result[t] = "true"]
                           ELSE [starts EXCEPT !.pc[t] = "make_queue"]
              [] pc = "make_queue" ->
                 \* line 160
                 starts' = [starts EXCEPT !.pc[t] = "spawn", !.queue = t]
              [] pc = "spawn" ->
                 \* lines 173-176: the child is given the queue self._queue
                 \* refers to now
                 starts' = [starts EXCEPT !.pc[t] = "wait", !.process = t,
                                          !.child[t] = "init",
                                          !.child_queue[t] = starts.queue]
              [] pc = "wait" ->
                 \* line 180: self._queue is read and the get begins
                 starts' = [starts EXCEPT !.pc[t] = "get",
                                          !.got_queue[t] = starts.queue]
              [] pc = "get" ->
                 \* lines 180-196: the first message of that queue, or the
                 \* exception of a timeout or of a handle that is None
                 LET q == starts.got_queue[t]
                     started == q # 0 /\ starts.chan[q] # <<>>
                                  /\ Head(starts.chan[q]) = "started"
                     taken == IF q # 0 /\ starts.chan[q] # <<>>
                              THEN [starts EXCEPT !.chan[q] = Tail(@)]
                              ELSE starts
                 IN  starts' =
                        IF started
                        THEN [taken EXCEPT !.pc[t] = "returned",
                                           !.result[t] = "true",
                                           !.running = TRUE,
                                           !.readers = @ \cup {t}]
                        ELSE [Cleaned(taken) EXCEPT !.pc[t] = "returned",
                                                    !.result[t] = "false"]
              [] pc = "returned" -> FALSE
        /\ UNCHANGED <<fn, scanner, motors, race, cursor>>
        /\ UNCHANGED <<srvVars, fbVars, joyVars, gridVars, navVars>>

\* _lidar_worker of child c up to its scan loop (lines 43-90): it reports
\* started, or reports an error and returns, or dies without a message
ChildStartStep(c) ==
    /\ starts.child[c] = "init"
    /\ LET q == starts.child_queue[c]
       IN  \E outcome \in {"started", "error", "dies"} :
             starts' =
                IF outcome = "dies" \/ q = 0
                THEN [starts EXCEPT !.child[c] = "exited"]
                ELSE [starts EXCEPT !.chan[q] = Append(@, outcome),
                                    !.child[c] = IF outcome = "started"
                                                 THEN "scanning" ELSE "exited"]
    /\ UNCHANGED <<fn, scanner, motors, race, cursor>>
    /\ UNCHANGED <<srvVars, fbVars, joyVars, gridVars, navVars>>

SpecStart ==
    Rest /\ [][\E t \in 1 .. MaxCallers : StartStep(t) \/ ChildStartStep(t)]_vars

\* =========================================================================
\* Properties
\* =========================================================================
AnyModeActive == mapping_active \/ navigation_active \/ exploration_active

\* C1: mode exclusivity. In every reachable state at most one of
\* mapping_active, navigation_active and exploration_active is true.
ModeExclusivity ==
    /\ ~(mapping_active /\ navigation_active)
    /\ ~(mapping_active /\ exploration_active)
    /\ ~(navigation_active /\ exploration_active)

\* C2: when handle_emergency_stop has completed, the three mode flags are
\* false, the action, navigation, mapping and exploration stop events are
\* set, and motor_state is stop / 0 on both sides.
EmergencyStopPost ==
    done = "emergency_stop" =>
        /\ ~mapping_active /\ ~navigation_active /\ ~exploration_active
        /\ stop_action_event /\ nav_stop_event
        /\ mapping_stop_event /\ explore_stop_event
        /\ motor_state = Stopped

\* the emergency stop has just completed while a navigation worker was in
\* the middle of a pass of its loop
EmergencyStopWitness ==
    /\ done = "emergency_stop"
    /\ \E w \in Workers : wkind[w] = "navigation" /\ wpc[w] = "tick"

\* C5: a start_mapping, start_navigation or start_exploration request made
\* while any of the three modes is active changes no mode flag, clears no
\* stop event and starts no worker thread.
StartWhileBusyIsNoOp ==
    [][(AnyModeActive
        /\ (StartMapping \/ StartNavigation \/ StartExploration))
       => UNCHANGED <<mapping_active, navigation_active, exploration_active,
                      nav_stop_event, mapping_stop_event, explore_stop_event,
                      wkind, wpc>>]_vars

\* C6: when the reader has seen the LiDAR worker fail, every mode flag is
\* false, and as long as the scanner is not started again no navigation or
\* exploration pass takes a command computed from a scan to the motors.
LidarFaultStopsLoops ==
    [][/\ LidarError => ~AnyModeActive'
       /\ (lidar_proc = "dead" /\ latest_scan) =>
            \A w \in Workers : ~NavigationTick(w) /\ ~ExplorationTick(w)]_vars

\* C7: a navigation or exploration worker that leaves its loop because its
\* stop was requested or the planner is complete ends with (0, 0) applied
\* and its active flag cleared, and a worker whose stop is requested stays
\* alive until it has left its loop.
StoppedWorkerZeroesMotors ==
    [][\A w \in Workers :
         /\ NavigationExit(w) =>
              motor_state' = Stopped /\ ~navigation_active' /\ wpc'[w] = "none"
         /\ ExplorationExit(w) =>
              motor_state' = Stopped /\ ~exploration_active' /\ wpc'[w] = "none"
         /\ (nav_stop_event /\ NavigationTick(w)) => wpc'[w] = "loop"
         /\ (explore_stop_event /\ ExplorationTick(w)) =>
              wpc'[w] \in {"loop", "exit"}]_vars

\* C8: every pass of a navigation or exploration loop, also one in which the
\* motor driver raises inside apply_joystick, leaves the worker thread alive:
\* it goes on to the next pass or to the code after the loop.
DriverErrorKeepsWorker ==
    [][\A w \in Workers :
         (NavigationTick(w) \/ ExplorationTick(w)) =>
             wpc'[w] \in {"loop", "exit"}]_vars

\* C3: after a non-zero joystick command that no other command follows, the
\* watchdog applies (0, 0) at most once, only when the silence exceeds
\* SAFETY_TIMEOUT, and once both threads are at rest with already_stopped
\* set it has applied it exactly once.
WatchdogExactlyOnce ==
    (fb_cmds > 0 /\ Mix(js_xy[1], js_xy[2]) # Stopped) =>
        /\ wd_applied <= 1
        /\ wd_applied >= 1 => wd_silence > SAFETY_TIMEOUT
        /\ (js_pc = "idle" /\ wd_pc = "sleep" /\ already_stopped) =>
             wd_applied = 1

\* C4: in no interleaving of the joystick callback with the watchdog are the
\* motors left running while already_stopped is true and both threads are
\* at rest: the watchdog would never stop them.
NeverRunningWhileMarkedStopped ==
    (js_pc = "idle" /\ wd_pc = "sleep" /\ already_stopped) => Mix(fb_motor[1], fb_motor[2]) = Stopped

\* C9: apply_joystick zeroes each axis of magnitude < 5, then left =
\* clamp(y + x), right = clamp(y - x) to [-100, 100]; per side the speed is
\* the magnitude, in 0 .. 100, and the direction follows the sign. (0, 50)
\* gives forward 50 on both sides, (100, 0) gives left forward 100 and right
\* backward 100.
JoystickToDrive ==
    joy_out # NoResult =>
        LET x == IF -5 < joy_in[1] /\ joy_in[1] < 5 THEN 0 ELSE joy_in[1]
            y == IF -5 < joy_in[2] /\ joy_in[2] < 5 THEN 0 ELSE joy_in[2]
            Clip(v) == IF v > 100 THEN 100 ELSE IF v < -100 THEN -100 ELSE v
            left == Clip(y + x)
            right == Clip(y - x)
            Dir(v) == CASE v > 0 -> "forward" [] v < 0 -> "backward"
                        [] OTHER -> "stop"
            Mag(v) == IF v >= 0 THEN v ELSE 0 - v
        IN  /\ joy_out.motor_a = [direction |-> Dir(left), speed |-> Mag(left)]
            /\ joy_out.motor_b = [direction |-> Dir(right), speed |-> Mag(right)]
            /\ joy_out.motor_a.speed \in 0 .. 100
            /\ joy_out.motor_b.speed \in 0 .. 100
            /\ joy_in = <<0, 50>> =>
                 /\ joy_out.motor_a = [direction |-> "forward", speed |-> 50]
                 /\ joy_out.motor_b = [direction |-> "forward", speed |-> 50]
            /\ joy_in = <<100, 0>> =>
                 /\ joy_out.motor_a = [direction |-> "forward", speed |-> 100]
                 /\ joy_out.motor_b = [direction |-> "backward", speed |-> 100]

\* apply_joystick has mapped an input whose sum y + x is clamped
JoystickWitness ==
    /\ joy_in = <<60, 80>>
    /\ joy_out = [motor_a |-> [direction |-> "forward", speed |-> 100],
                  motor_b |-> [direction |-> "forward", speed |-> 20]]

\* the cells of the Bresenham line from (r0, c0) to (r1, c1): one cell per
\* step of the longer axis, the other coordinate rounded to the nearest cell
\* (a half rounds towards the start)
LineCells(r0, c0, r1, c1) ==
    LET dr == IF r1 >= r0 THEN r1 - r0 ELSE r0 - r1
        dc == IF c1 >= c0 THEN c1 - c0 ELSE c0 - c1
        sr == IF r1 > r0 THEN 1 ELSE -1
        sc == IF c1 > c0 THEN 1 ELSE -1
        Near(n, d) == IF d = 0 THEN 0 ELSE (2 * n + d - 1) \div (2 * d)
    IN  IF dr >= dc
        THEN {<<r0 + sr * i, c0 + sc * Near(i * dc, dr)>> : i \in 0 .. dr}
        ELSE {<<r0 + sr * Near(i * dr, dc), c0 + sc * i>> : i \in 0 .. dc}

LastLine ==
    LineCells(robot_cell[1], robot_cell[2], last_point.er, last_point.ec)

\* C10: the ray of an in-range point changes no OCCUPIED cell, makes every
\* other in-bounds cell of the Bresenham line from the robot cell to the
\* endpoint cell FREE and writes no cell off the line; the in-bounds endpoint
\* cell is then set OCCUPIED and is OCCUPIED when update_from_scan returns.
RayCastInvariant ==
    /\ upd_pc = "mark" =>
         \A cell \in AllCells :
            grid[cell] = IF grid_before[cell] # OCCUPIED /\ cell \in LastLine
                         THEN FREE ELSE grid_before[cell]
    /\ (upd_pc = "points" /\ last_point.in_range
        /\ in_bounds(last_point.er, last_point.ec)) =>
            grid[<<last_point.er, last_point.ec>>] = OCCUPIED
    /\ upd_pc = "idle" => \A cell \in scan_ends : grid[cell] = OCCUPIED

\* a ray has crossed a cell that an earlier point of the scan made OCCUPIED
\* and has freed an unknown cell behind it
RayCastWitness ==
    /\ upd_pc = "mark"
    /\ \E blocked \in LastLine \cap AllCells, freed \in LastLine \cap AllCells :
         /\ grid_before[blocked] = OCCUPIED
         /\ blocked # <<last_point.er, last_point.ec>>
         /\ grid_before[freed] = UNKNOWN
         /\ grid[freed] = FREE

\* C11: every non-empty path returned by _a_star starts on a cell 4-adjacent
\* to the source cell, ends on the goal cell, also when it is down-sampled,
\* and has no waypoint on an OCCUPIED cell.
AStarPathEnds ==
    (a_out.called /\ a_out.path # <<>>) =>
        LET s == world_to_cell(a_in.sx, a_in.sy)
            t == world_to_cell(a_in.gx, a_in.gy)
            path == a_out.path
        IN  /\ \E n \in Neighbours(s) : path[1] = cell_to_world(n[1], n[2])
            /\ path[Len(path)] = cell_to_world(t[1], t[2])
            /\ \A i \in 1 .. Len(path) :
                 \E cell \in MapCells :
                    /\ path[i] = cell_to_world(cell[1], cell[2])
                    /\ map_grid[cell] # OCCUPIED

\* C12: when _a_star finds no path from the current cell to the start cell
\* (the search is exhausted or an endpoint is out of bounds) it returns the
\* empty list, and the planner in return mode then holds no waypoint.
NoPathNoWaypoint ==
    [][(/\ RefreshReturn
        /\ world_to_cell(pose.x, pose.y)
             # world_to_cell(StartPose.x, StartPose.y)
        /\ a_star(map_grid, pose.x, pose.y, StartPose.x, StartPose.y) = <<>>)
       => planner'.waypoints = <<>>]_vars

\* C13: with the sector values the mean distance per sector (0 when empty)
\* and centre = N / 2, plan_step returns forward at the configured speed
\* with steering 0 iff every sector of centre - front_half .. centre +
\* front_half is non-zero and at least the threshold; otherwise stop iff the
\* largest sector value is below the threshold; otherwise a turn towards an
\* arg-max sector best, turn_right when best < centre and turn_left
\* otherwise, of steering magnitude clamp(20, |centre - best| * 100 / centre,
\* 100) as an integer.
ReactiveDecision ==
    nav_cmd # NoCmd =>
        LET N == 12
            centre == N \div 2
            InSector(i) ==
                {k \in 1 .. Len(scan) :
                    LET norm == (scan[k].angle + 180) % 360
                    IN  30 * i <= norm /\ norm < 30 * (i + 1)}
            Total(i) == SectorSum(scan, i)
            IsMean(v, i) ==
                IF InSector(i) = {} THEN v = 0
                ELSE LET n == Cardinality(InSector(i))
                     IN  2 * Abs(v * n - Total(i)) <= n
            V == build_sectors(scan)
            FrontOk == \A i \in centre - 2 .. centre + 2 :
                          V[i] # 0 /\ V[i] >= 350
            Largest == CHOOSE v \in {V[i] : i \in 0 .. N - 1} :
                          \A i \in 0 .. N - 1 : V[i] <= v
            Mag(best) ==
                LET raw == (Abs(centre - best) * 100) \div centre
                IN  IF raw < 20 THEN 20 ELSE IF raw > 100 THEN 100 ELSE raw
        IN  /\ \A i \in 0 .. N - 1 : IsMean(V[i], i)
            /\ nav_cmd = Cmd("forward", NAV_SPEED, 0) <=> FrontOk
            /\ nav_cmd.action = "forward" => nav_cmd = Cmd("forward", NAV_SPEED, 0)
            /\ ~FrontOk => (nav_cmd = Cmd("stop", 0, 0) <=> Largest < 350)
            /\ (~FrontOk /\ Largest >= 350) =>
                 \E best \in 0 .. N - 1 :
                    /\ V[best] = Largest
                    /\ nav_cmd.action =
                         IF best < centre THEN "turn_right" ELSE "turn_left"
                    /\ Abs(nav_cmd.steering) = Mag(best)

\* a scan whose front is below the threshold and whose widest sector is two
\* sectors right of the centre: the planner turns right with steering 33
ReactiveWitness ==
    /\ nav_cmd = Cmd("turn_right", NAV_SPEED, 33)
    /\ build_sectors(scan)[NAV_SECTOR_COUNT \div 2] = 300

ReactiveAuthoritative ==
    ep_out.called =>
        LET R == plan_step(scan, EXPLORE_SPEED)
            turns == {"turn_left", "turn_right"}
        IN  /\ ep_out.cmd.action = "forward" => R.action = "forward"
            /\ (ep_out.cmd.action \in turns /\ ep_out.cmd # R) =>
                 R.action = "forward"
            /\ ep_out.reactive # NoCmd => ep_out.reactive = R
            /\ ep_out.reactive.action \in turns =>
                 /\ ep_out.cmd = R
                 /\ planner.current_wp_idx = ep_out.idx_at_reactive

\* the planner was heading for its second waypoint, off course, and the
\* reactive planner's turn to the right was returned instead of its own turn
ReactiveAuthoritativeWitness ==
    /\ ep_out.called
    /\ ep_out.reactive.action = "turn_right"
    /\ ep_out.cmd = ep_out.reactive
    /\ planner.current_wp_idx = 1
    /\ OffCourse(heading_error(pose, get_current_target(planner)))

\* C16: when the reactive planner returns stop for the current scan, the
\* exploration planner's plan_step advances the waypoint cursor by exactly
\* one and returns a stop command.
BlockedSkipsWaypoint ==
    (ep_out.called /\ ep_out.reactive.action = "stop") =>
        /\ ep_out.cmd = Cmd("stop", 0, 0)
        /\ planner.current_wp_idx = ep_out.idx_at_reactive + 1

\* blocked all around while heading for the first of two waypoints: the
\* cursor has moved on to the second
BlockedSkipsWitness ==
    /\ ep_out.called
    /\ ep_out.reactive.action = "stop"
    /\ scan = Sweep(300)
    /\ Len(planner.waypoints) = 2
    /\ planner.current_wp_idx = 1

\* C17: in explore mode, after the waypoints are regenerated the planner
\* holds exactly one waypoint, the centroid of the frontier cluster nearest
\* to the pose among the clusters at least EXPLORE_FRONTIER_MIN_DIST away,
\* or no waypoint when there is no such cluster.
NearestFrontierWaypoint ==
    [][RefreshExplore =>
        LET F == get_frontiers(map_grid)
            D(i) == Dist2(F[i].x, F[i].y, pose.x, pose.y)
            valid == {i \in 1 .. Len(F) : D(i) >= 200 * 200}
            IsCentroid(f) ==
                LET n == Cardinality(f.cells)
                IN  /\ 2 * Abs(f.x * n - RESOLUTION *
                                 (SumOver(f.cells, 2) - n * map_origin)) <= n
                    /\ 2 * Abs(f.y * n + RESOLUTION *
                                 (SumOver(f.cells, 1) - n * map_origin)) <= n
        IN  IF valid = {} THEN planner'.waypoints = <<>>
            ELSE /\ Len(planner'.waypoints) = 1
                 /\ \E i \in valid :
                       /\ planner'.waypoints[1] = <<F[i].x, F[i].y>>
                       /\ IsCentroid(F[i])
                       /\ \A j \in valid : D(i) <= D(j)]_vars

\* the waypoints were regenerated on a map with two clusters far enough
\* from the pose, and the waypoint held is not the larger, first reported
\* cluster but the nearer one
NearestFrontierWitness ==
    /\ planner.current_wp_idx = 0
    /\ Len(planner.waypoints) = 1
    /\ LET F == get_frontiers(map_grid)
       IN  /\ Len(ValidFrontiers(F, pose)) >= 2
           /\ F[1].size > F[2].size
           /\ planner.waypoints[1] # <<F[1].x, F[1].y>>

\* C18: every cluster reported by get_frontiers consists of FREE cells that
\* each have an UNKNOWN 4-neighbour, is 4-connected and has at least 3
\* cells, and the clusters are reported in non-increasing order of size.
FrontierClusters ==
    frontiers_out.called =>
        LET F == frontiers_out.clusters
            Adjacent(a, b) == Abs(a[1] - b[1]) + Abs(a[2] - b[2]) = 1
            Connected(S) ==
                \A T \in SUBSET S :
                    (T # {} /\ T # S) =>
                        \E a \in T, b \in S \ T : Adjacent(a, b)
        IN  /\ \A i \in 1 .. Len(F) :
                 /\ \A cell \in F[i].cells :
                       /\ map_grid[cell] = FREE
                       /\ \E n \in MapCells :
                             Adjacent(cell, n) /\ map_grid[n] = UNKNOWN
                 /\ Connected(F[i].cells)
                 /\ Cardinality(F[i].cells) >= 3
                 /\ F[i].size = Cardinality(F[i].cells)
            /\ \A i \in 1 .. Len(F) - 1 : F[i].size >= F[i + 1].size

\* get_frontiers has reported two clusters, the larger first although the
\* smaller one was found first, on a map that also has a FREE cell with no
\* UNKNOWN neighbour
FrontierWitness ==
    /\ frontiers_out.called
    /\ Len(frontiers_out.clusters) = 2
    /\ frontiers_out.clusters[1].size > frontiers_out.clusters[2].size
    /\ RowMajorLess(FirstCell(frontiers_out.clusters[2].cells),
                    FirstCell(frontiers_out.clusters[1].cells))
    /\ \E cell \in WindowCells :
          map_grid[cell] = FREE /\ ~IsFrontierCell(map_grid, cell)

\* C19: a pose update called with dt <= 0 or dt > 2 s is ignored: x, y,
\* heading, total distance and the path history are all unchanged by that
\* call.
DropoutIgnored ==
    (pe_out.op = "update" /\ (pe_out.dt <= 0 \/ pe_out.dt > 20)) =>
        /\ pose.x = pe_out.before.x
        /\ pose.y = pe_out.before.y
        /\ pose.heading = pe_out.before.heading
        /\ pose.total_distance = pe_out.before.total_distance
        /\ pose.history = pe_out.before.history

\* after an update that moved the robot, an update at full speed with a
\* time delta of 2.1 s
DropoutWitness ==
    /\ pe_out.op = "update"
    /\ pe_out.dt > 20
    /\ pe_out.speed = 100
    /\ pe_out.direction = "forward"
    /\ Len(pose.history) = 1
    /\ pose.total_distance > 0

\* C20: correct_from_scan moves the pose only when a non-zero offset in
\* {-0.05, 0, +0.05}^2 scores more than 10 occupied endpoints and scores
\* better than the zero offset; when the zero offset scores at least as well
\* as every other offset (all nine tying included) the pose is unchanged;
\* the heading is never changed, and with fewer than 20 points nothing is
\* changed.
ScanMatchCorrection ==
    pe_out.op = "correct" =>
        LET b == pe_out.before
            Score(off) == MatchScore(map_grid, b, scan, off[1], off[2])
            offsets == {MatchOffsets[i] : i \in 1 .. 9}
            moved == pose.x # b.x \/ pose.y # b.y
        IN  /\ moved =>
                 \E off \in offsets \ {<<0, 0>>} :
                    /\ pose.x = b.x + off[1]
                    /\ pose.y = b.y + off[2]
                    /\ Score(off) > 10
                    /\ Score(off) > Score(<<0, 0>>)
            /\ (\A off \in offsets : Score(<<0, 0>>) >= Score(off)) => ~moved
            /\ pose.heading = b.heading
            /\ Len(scan) < 20 => pose = b

\* -------------------------------------------------------------------------
\* C21: for every world coordinate (x, y), positive or negative,
\* world_to_cell returns col = floor(x / res) + origin and
\* row = floor(-y / res) + origin
\* -------------------------------------------------------------------------
WorldToCellFloor ==
    (fn.op = "world_to_cell" /\ fn.result # <<>>) =>
        fn.result = <<((0 - fn.args[2]) \div RESOLUTION) + map_origin,
                      (fn.args[1] \div RESOLUTION) + map_origin>>

\* -------------------------------------------------------------------------
\* C22: for every in-bounds cell (row, col),
\* world_to_cell(cell_to_world(row, col)) is (row, col), at worst off by one
\* cell
\* -------------------------------------------------------------------------
RoundTripWithinOneCell ==
    (fn.op = "round_trip" /\ fn.result # <<>>) =>
        /\ Abs(fn.result[1] - fn.args[1]) <= 1
        /\ Abs(fn.result[2] - fn.args[2]) <= 1

\* a round trip that came back one row off, and so used the allowance
RoundTripWitness ==
    /\ fn.op = "round_trip" /\ fn.result # <<>>
    /\ fn.result[1] = fn.args[1] - 1
    /\ fn.result[2] = fn.args[2]

\* -------------------------------------------------------------------------
\* C23: for every pose and scan, with the robot cell or a ray endpoint outside
\* the map too, update_from_scan writes only cells with 0 <= row < cells and
\* 0 <= col < cells: every cell outside the array keeps its initial value
\* -------------------------------------------------------------------------
WritesInBounds ==
    \A cell \in DOMAIN grid :
        ~in_bounds(cell[1], cell[2]) => grid[cell] = UNKNOWN

\* a ray from a robot cell outside the map to an endpoint outside the map has
\* crossed the map and freed a cell of it, and its endpoint has been handled
WritesInBoundsWitness ==
    /\ upd_pc = "points"
    /\ last_point.valid /\ last_point.in_range
    /\ ~in_bounds(last_point.er, last_point.ec)
    /\ ~in_bounds(robot_cell[1], robot_cell[2])
    /\ \E cell \in AllCells : grid[cell] = FREE

\* -------------------------------------------------------------------------
\* C24: for a scan frame with any number n of points, the points list
\* published in a map_data event holds at most 360 points
\* -------------------------------------------------------------------------
MapDataAtMost360 ==
    (fn.op = "map_data" /\ fn.result # <<>>) => fn.result[1] <= MAP_DATA_POINTS

\* -------------------------------------------------------------------------
\* C25: when the first message from the child is not started, or none comes
\* within the handshake timeout, or the child exits, start() returns False
\* and leaves the scanner cleaned up: no live child, the process, queue and
\* stop-event handles None, running false and no reader thread
\* -------------------------------------------------------------------------
FailedStartIsClean ==
    /\ (scanner.pc = "idle" /\ scanner.handshake \in {"error", "timeout"})
          => scanner.result = "false"
    /\ scanner.result = "false" =>
          /\ scanner.child \notin {"init", "scanning"}
          /\ ~scanner.process /\ ~scanner.queue /\ scanner.stop_evt = "none"
          /\ ~scanner.running /\ ~scanner.reader

\* start() has returned False after a wait that timed out
FailedStartWitness ==
    /\ scanner.result = "false"
    /\ scanner.handshake = "timeout"
    /\ scanner.child = "exited"

\* -------------------------------------------------------------------------
\* C26: when the queue from the worker to the parent is full the worker does
\* not block: the new scan frame is accepted and the oldest queued frame is
\* discarded, so the newest frame is in the queue afterwards
\* -------------------------------------------------------------------------
FullQueueDropsOldest ==
    [][(/\ Len(scanner.chan) = QUEUE_MAXSIZE
        /\ ChildScan
        /\ scanner'.produced = scanner.produced + 1)
       => scanner'.chan = Append(Tail(scanner.chan),
                                 [type |-> "scan", id |-> scanner'.produced])]_vars

\* -------------------------------------------------------------------------
\* C27: at most one worker per loop kind is ever inside its control loop
\* (at the test of its while loop or in a pass of its body), whatever the
\* sequence of start, stop and emergency_stop requests
\* -------------------------------------------------------------------------
OneWorkerPerLoop ==
    \A kind \in {"mapping", "navigation", "exploration"} :
        \A v, w \in Workers :
            (/\ wkind[v] = kind /\ wpc[v] \in {"loop", "tick"}
             /\ wkind[w] = kind /\ wpc[w] \in {"loop", "tick"}) => v = w

\* -------------------------------------------------------------------------
\* C28: calls of apply_joystick are serialised: when concurrent calls from
\* different threads have all returned, the driver state of both motors and
\* the published motor_state are the result of one single call, never a mix
\* of two
\* -------------------------------------------------------------------------
ApplyJoystickSerialised ==
    (\A t \in 1 .. MaxCallers : motors.calls[t].pc = "returned") =>
        \E t \in 1 .. MaxCallers :
            /\ motor_state = motors.calls[t].state
            /\ motors_real =>
                  /\ motors.motor_a = motors.calls[t].state.motor_a
                  /\ motors.motor_b = motors.calls[t].state.motor_b

\* -------------------------------------------------------------------------
\* C29: the pose is accessed atomically: a get_pose never observes a
\* partially applied update(), and a concurrent update() and
\* correct_from_scan() never lose one another's change to x or y
\* -------------------------------------------------------------------------
PoseAccessAtomic ==
    LET u == race.delta["update"]
        c == race.delta["correct"]
    IN  /\ (race.pc["update"] = "returned" /\ race.pc["correct"] = "returned")
               => /\ pose.x = StartPose.x + u[1] + c[1]
                  /\ pose.y = StartPose.y + u[2] + c[2]
        /\ race.pc["get_pose"] = "returned"
               => \E a, b \in {0, 1} :
                     race.seen = <<StartPose.x + a * u[1] + b * c[1],
                                   StartPose.y + a * u[2] + b * c[2]>>

\* -------------------------------------------------------------------------
\* C30: once handle_emergency_stop has returned, the motor state stays
\* stop / 0 until the next joystick or start_X request: the step that follows
\* the handler's return, unless it is such a request, leaves the motors
\* stopped
\* -------------------------------------------------------------------------
StaysStoppedAfterEmergencyStop ==
    [][(/\ done = "emergency_stop"
        /\ ~(Joystick \/ StartMapping \/ StartNavigation \/ StartExploration))
       => motor_state' = Stopped]_vars

\* -------------------------------------------------------------------------
\* C31: every call of ExplorationPlanner.plan_step terminates and returns a
\* command, in every mode and for every grid and pose, also when the robot
\* is within 0.20 m of every regenerated waypoint: the advance-and-recurse
\* step does not recurse without end
\* -------------------------------------------------------------------------
PlanStepTerminates ==
    ep_out.called =>
        ep_out.cmd.action \in {"stop", "forward", "turn_left", "turn_right"}

\* -------------------------------------------------------------------------
\* C32: the active flag reflects the worker: whenever a mapping, navigation
\* or exploration worker is alive (starting up or in its loop) and its stop
\* event is clear, the flag of its kind is true; the epilogue of an earlier
\* worker never clears the flag of a newly started one
\* -------------------------------------------------------------------------
ActiveFlagReflectsWorker ==
    \A w \in Workers :
        wpc[w] \in {"init", "loop", "tick"} =>
            /\ (wkind[w] = "mapping" /\ ~mapping_stop_event) => mapping_active
            /\ (wkind[w] = "navigation" /\ ~nav_stop_event)
                   => navigation_active
            /\ (wkind[w] = "exploration" /\ ~explore_stop_event)
                   => exploration_active

\* -------------------------------------------------------------------------
\* C33: while a navigation or exploration worker is iterating with its stop
\* event clear the scan source is running: neither stop_mapping nor the
\* exit of the mapping loop or of another loop stops the LiDAR underneath it
\* -------------------------------------------------------------------------
LidarKeptForIteratingWorker ==
    [][(/\ lidar_running
        /\ \/ StopMapping
           \/ \E v \in Workers :
                 MappingExit(v) \/ NavigationExit(v) \/ ExplorationExit(v))
       => \A w \in Workers :
             (/\ wpc'[w] \in {"loop", "tick"}
              /\ \/ wkind'[w] = "navigation" /\ ~nav_stop_event'
                 \/ wkind'[w] = "exploration" /\ ~explore_stop_event')
                => lidar_running']_vars

CursorWithinWaypoints ==
    /\ (\A t \in {"plan_step", "set_mode"} : cursor.pc[t] = "idle")
         => /\ planner.current_wp_idx >= 0
            /\ planner.current_wp_idx <= Len(planner.waypoints)
    /\ ~cursor.raised

\* C36: a LidarScanner has at most one live child worker process and at
\* most one reader thread at any time, also when two loop workers call
\* start() at the same time
OneChildOneReader ==
    /\ Cardinality({c \in 1 .. MaxCallers :
                      starts.child[c] \in {"init", "scanning"}}) <= 1
    /\ Cardinality(starts.readers) <= 1

\* C37: get_frontiers considers every cell of the grid: each FREE cell with
\* an UNKNOWN 4-neighbour, the cells of the outermost rows and columns
\* included, is among the frontier cells that are clustered
EveryFrontierCellCounted ==
    frontiers_out.called =>
        \A cell \in MapCells :
            (/\ map_grid[cell] = FREE
             /\ \E n \in Neighbours(cell) \cap MapCells : map_grid[n] = UNKNOWN)
                => cell \in frontier_cells(map_grid)

\* C38: every wall reported by detect_walls_and_corners is an axis-aligned
\* run of at least 5 consecutive OCCUPIED cells, and no cell belongs to more
\* than one reported wall
WallsAreDisjointRuns ==
    (fn.op = "detect_walls" /\ fn.result # <<>>) =>
        LET walls == fn.result
            WallCells(w) == (w.r1 .. w.r2) \X (w.c1 .. w.c2)
        IN  /\ \A i \in 1 .. Len(walls) :
                 /\ walls[i].r1 = walls[i].r2 \/ walls[i].c1 = walls[i].c2
                 /\ Cardinality(WallCells(walls[i])) >= 5
                 /\ WallCells(walls[i]) \subseteq fn.args[1]
            /\ \A i, j \in 1 .. Len(walls) :
                 i # j => WallCells(walls[i]) \cap WallCells(walls[j]) = {}

\* C39: on a grid with no OCCUPIED cell, between two different cells of one
\* row, the path _a_star returns is the straight segment with one waypoint
\* per cell: as many waypoints as the Manhattan distance, each one cell
\* further along the row
StraightPathAlongRow ==
    LET s == world_to_cell(a_in.sx, a_in.sy)
        t == world_to_cell(a_in.gx, a_in.gy)
        dir == IF t[2] > s[2] THEN 1 ELSE -1
    IN  (/\ a_out.called
         /\ \A cell \in MapCells : map_grid[cell] # OCCUPIED
         /\ map_in_bounds(s[1], s[2]) /\ map_in_bounds(t[1], t[2])
         /\ s[1] = t[1] /\ s[2] # t[2])
        => /\ Len(a_out.path) = Abs(t[2] - s[2])
           /\ \A i \in 1 .. Len(a_out.path) :
                 a_out.path[i] = cell_to_world(s[1], s[2] + dir * i)

\* C40: after a start_exploration request carrying mode m, the exploration
\* planner created by the exploration worker operates in mode m
PlannerModeIsRequested ==
    (fn.op = "start_exploration" /\ fn.result # <<>>)
        => fn.result[1] = fn.args[1]
====
